---- MODULE Spec2Model ----
(***************************************************************************)
(* Model of feedln (src/feedln.py): the sqlite store of feeds, categories, *)
(* feed/category links and feed items, the feed-list loader that fills it, *)
(* the fetch-and-merge paths (single feed, category, bulk) and the         *)
(* read-flag mutations issued by the navigation views.                     *)
(***************************************************************************)
EXTENDS Integers, Sequences, FiniteSets, TLC

\* ------------------------------------------------------------------ bounds
\* longest parsed feed document (entries)
MaxEntries == 2

\* longest list a list view shows, and the most rows a terminal shows
\* (curses.LINES - 2)
MaxList == 3
MaxDisplay == 2

\* the entry body has at most MaxLines wrapped lines, and a terminal shows at
\* most MaxPage of them (curses.LINES - 5)
MaxLines == 4

MaxPage == 3

\* SQL NULL / a text attribute the parsed entry does not have
NULL == "NULL"

\* a value that may be None: the empty set, or the set holding the value
None == {}
Some(x) == {x}
Get(o) == CHOOSE x \in o : TRUE

\* ------------------------------------------------------- small helpers
Max(S) == CHOOSE x \in S : \A y \in S : y <= x

\* rowid sqlite gives a row inserted without an explicit INTEGER PRIMARY KEY
NextRowid(ids) == IF ids = {} THEN 1 ELSE Max(ids) + 1

SeqsUpTo(S, n) == UNION {[1..k -> S] : k \in 0..n}

\* ------------------------------------------------- strings as char sequences
\* str.split(";") of the Category field
RECURSIVE SplitFrom(_, _, _)
SplitFrom(s, cur, out) ==
    IF s = <<>> THEN Append(out, cur)
    ELSE IF Head(s) = ";" THEN SplitFrom(Tail(s), <<>>, Append(out, cur))
    ELSE SplitFrom(Tail(s), Append(cur, Head(s)), out)

SplitSemi(s) == SplitFrom(s, <<>>, <<>>)

\* str.strip(): leading and trailing blanks removed
RECURSIVE LStrip(_)
LStrip(s) == IF s # <<>> /\ Head(s) = " " THEN LStrip(Tail(s)) ELSE s

RECURSIVE RStrip(_)
RStrip(s) ==
    IF s # <<>> /\ s[Len(s)] = " " THEN RStrip(SubSeq(s, 1, Len(s) - 1)) ELSE s

Strip(s) == RStrip(LStrip(s))

\* ------------------------------------------------------ feed-list file rows
\* csv.DictReader rows: Name, URL, Category (";"-separated), Tags
RowAB == [Name |-> <<"n", "1">>, URL |-> "u1", Category |-> <<"A", ";", "B">>, Tags |-> ""]
RowA == [Name |-> <<"n", "2">>, URL |-> "u2", Category |-> <<"A">>, Tags |-> ""]
RowNone == [Name |-> <<"n", "3">>, URL |-> "u2", Category |-> <<>>, Tags |-> ""]
RowComment == [Name |-> <<"#", "x">>, URL |-> "u1", Category |-> <<"B">>, Tags |-> ""]

\* the feed-list files the program is started with: two feeds sharing a
\* category, a feed without category, a repeated row, a single feed, only a
\* comment
FeedFiles ==
    { <<RowAB, RowA>>, <<RowAB, RowNone>>, <<RowAB, RowAB>>,
      <<RowA>>, <<RowNone>>, <<RowComment>> }

\* --------------------------------------------------------------- the store
EmptyDb ==
    [ feeds |-> {}, categories |-> {}, feed_categories |-> {},
      feed_items |-> {}, lastrowid |-> 0 ]

\* an INSERT INTO feeds on a table without the UNIQUE constraint on url
InsertFeedNoUnique(db, name, url, tags) ==
    LET id == NextRowid({f.id : f \in db.feeds})
    IN [db EXCEPT !.feeds = @ \cup {[id |-> id, name |-> name, url |-> url,
                                     tags |-> tags, category |-> NULL]},
                  !.lastrowid = id]

\* INSERT OR IGNORE INTO feeds (name, url, tags): url is UNIQUE
InsertFeed(db, name, url, tags) ==
    IF \E f \in db.feeds : f.url = url THEN db
    ELSE LET id == NextRowid({f.id : f \in db.feeds})
         IN [db EXCEPT !.feeds = @ \cup {[id |-> id, name |-> name, url |-> url,
                                          tags |-> tags, category |-> NULL]},
                       !.lastrowid = id]

\* INSERT OR IGNORE INTO categories (name): name is UNIQUE
InsertCategory(db, name) ==
    IF \E c \in db.categories : c.name = name THEN db
    ELSE LET id == NextRowid({c.id : c \in db.categories})
         IN [db EXCEPT !.categories = @ \cup {[id |-> id, name |-> name]},
                       !.lastrowid = id]

\* INSERT OR IGNORE INTO feed_categories (feed_id, category_id)
\*   SELECT ?, id FROM categories WHERE name = ?      (composite primary key)
InsertFeedCategory(db, feed_id, name) ==
    LET cs == {c \in db.categories : c.name = name}
    IN IF cs = {} THEN db
       ELSE LET cid == (CHOOSE c \in cs : TRUE).id
            IN IF \E l \in db.feed_categories :
                      l.feed_id = feed_id /\ l.category_id = cid
               THEN db
               ELSE LET rid == NextRowid({l.rowid : l \in db.feed_categories})
                    IN [db EXCEPT !.feed_categories =
                                      @ \cup {[rowid |-> rid, feed_id |-> feed_id,
                                               category_id |-> cid]},
                                  !.lastrowid = rid]

\* the loop over the split Category field of one row
RECURSIVE LinkCategories(_, _, _)
LinkCategories(db, feed_id, cats) ==
    IF cats = <<>> THEN db
    ELSE LET name == Strip(Head(cats))
             d1 == InsertCategory(db, name)
             d2 == InsertFeedCategory(d1, feed_id, name)
         IN LinkCategories(d2, feed_id, Tail(cats))

\* one row of the csv file: comment rows are skipped; feed_id is
\* cursor.lastrowid, the connection's last inserted rowid, also when the
\* INSERT OR IGNORE inserted nothing
LoadCsvRow(db, row) ==
    IF row.Name # <<>> /\ Head(row.Name) = "#" THEN db
    ELSE LET d1 == InsertFeed(db, row.Name, row.URL, row.Tags)
             feed_id == d1.lastrowid
         IN IF row.Category # <<>>
            THEN LinkCategories(d1, feed_id, SplitSemi(row.Category))
            ELSE d1

RECURSIVE load_csv_feedfile_to_db(_, _)
load_csv_feedfile_to_db(db, file) ==
    IF file = <<>> THEN db
    ELSE load_csv_feedfile_to_db(LoadCsvRow(db, Head(file)), Tail(file))

\* ------------------------------------------------- parsed feed documents
\* one feedparser entry: a text field the entry lacks is NULL, a *_parsed
\* field it lacks is None.  A struct_time is a record of its seconds.
Entries ==
    { [title |-> "t1", summary |-> "s1", link |-> "l1", content |-> "c1",
       updated_parsed |-> Some([secs |-> 2]), created_parsed |-> None,
       published_parsed |-> Some([secs |-> 1])],
      [title |-> "t1", summary |-> "s2", link |-> "l1", content |-> "c2",
       updated_parsed |-> None, created_parsed |-> None,
       published_parsed |-> None],
      [title |-> "t2", summary |-> "s1", link |-> "l2", content |-> NULL,
       updated_parsed |-> Some([secs |-> 1]), created_parsed |-> Some([secs |-> 1]),
       published_parsed |-> Some([secs |-> 2])],
      [title |-> NULL, summary |-> "s1", link |-> "l1", content |-> "c1",
       updated_parsed |-> None, created_parsed |-> None,
       published_parsed |-> None] }

\* feedparser.parse(body).entries for the bodies a server may return
Docs == SeqsUpTo(Entries, MaxEntries)

\* time.mktime of a struct_time
mktime(st) == st.secs

\* entry.title, entry.summary, entry.link: attribute access raises
\* AttributeError when the entry has no such field
EntryRaises(e) == e.title = NULL \/ e.summary = NULL \/ e.link = NULL

\* the row built from one entry (lines 497-503, 527-533)
ItemValues(e) ==
    LET created_parsed == IF e.created_parsed = None THEN e.published_parsed
                          ELSE e.created_parsed
    IN [ title |-> e.title, summary |-> e.summary,
         content |-> IF e.content = NULL THEN "" ELSE e.content,
         last_updated |-> IF e.updated_parsed # None THEN mktime(Get(e.updated_parsed)) ELSE 0,
         created |-> IF created_parsed # None THEN mktime(Get(created_parsed)) ELSE 0,
         link |-> e.link ]

\* a plain INSERT on a table without the UNIQUE(feed_id, title) constraint
InsertItemNoUnique(items, feed_id, e) ==
    LET v == ItemValues(e)
    IN items \cup
       {[ id |-> NextRowid({i.id : i \in items}), feed_id |-> feed_id,
          title |-> v.title, summary |-> v.summary, content |-> v.content,
          is_read |-> 0, last_updated |-> v.last_updated,
          created |-> v.created, link |-> v.link ]}

\* INSERT OR REPLACE: the row of the same (feed_id, title) is deleted and
\* the new one inserted
InsertItemReplace(items, feed_id, e) ==
    InsertItemNoUnique(
        {i \in items : ~(i.feed_id = feed_id /\ i.title = e.title)}, feed_id, e)

\* the same INSERT OR IGNORE on a table declared UNIQUE(title)
InsertItemTitleOnly(items, feed_id, e) ==
    IF \E i \in items : i.title = e.title THEN items
    ELSE InsertItemNoUnique(items, feed_id, e)

\* INSERT OR IGNORE INTO feed_items (feed_id, title, summary, content,
\* last_updated, created, link): UNIQUE(feed_id, title), is_read DEFAULT 0
InsertItem(items, feed_id, e) ==
    IF \E i \in items : i.feed_id = feed_id /\ i.title = e.title THEN items
    ELSE LET v == ItemValues(e)
         IN items \cup
            {[ id |-> NextRowid({i.id : i \in items}), feed_id |-> feed_id,
               title |-> v.title, summary |-> v.summary, content |-> v.content,
               is_read |-> 0, last_updated |-> v.last_updated,
               created |-> v.created, link |-> v.link ]}

\* the loop over parsed_feed.entries: rows inserted so far in the open
\* transaction, and whether an entry raised
RECURSIVE MergeEntries(_, _, _)
MergeEntries(items, feed_id, entries) ==
    IF entries = <<>> THEN [items |-> items, raised |-> FALSE]
    ELSE IF EntryRaises(Head(entries)) THEN [items |-> items, raised |-> TRUE]
    ELSE MergeEntries(InsertItem(items, feed_id, Head(entries)), feed_id, Tail(entries))

\* ------------------------------------------------------- network outcomes
\* what one GET may end in: status 200 with a body, another status, the
\* request timeout, or a connection failure
Outcomes ==
    {[kind |-> "ok", doc |-> d] : d \in Docs}
    \cup {[kind |-> k, doc |-> <<>>] : k \in {"status", "timeout", "connerror"}}

\* the bodies the servers of the bulk-fetch runs return: empty, two
\* entries, and one whose second entry has no title
BatchDocs ==
    {d \in Docs :
        \/ d = <<>>
        \/ /\ Len(d) = 2
           /\ d[1].title = "t1" /\ d[1].content = "c1"
           /\ d[2].title \in {"t2", NULL}}

BatchOutcomes == {o \in Outcomes : o.kind = "ok" => o.doc \in BatchDocs}

\* update_feed_items: the single-feed path.  The bare except catches what
\* requests.get and the entry loop raise; conn.commit() runs in every case.
update_feed_items(items, feed_id, outcome) ==
    IF outcome.kind = "ok" THEN MergeEntries(items, feed_id, outcome.doc).items
    ELSE items

\* update_feed_items_according_to_content: the bulk path.  content is the
\* body or None; nothing catches what the entry loop raises, so only a loop
\* that ends reaches conn.commit().
update_feed_items_according_to_content(items, feed_id, content) ==
    IF content = None THEN [items |-> items, raised |-> FALSE]
    ELSE LET r == MergeEntries(items, feed_id, Get(content))
         IN IF r.raised THEN [items |-> items, raised |-> TRUE]
            ELSE [items |-> r.items, raised |-> FALSE]

\* ------------------------------------------------------------- queries
\* rows of feeds joined to feed_categories and categories WHERE c.name = ?
FeedsOfCategoryName(fs, cs, ls, name) ==
    {f \in fs : \E l \in ls, c \in cs :
        l.feed_id = f.id /\ l.category_id = c.id /\ c.name = name}

\* SUM(CASE WHEN is_read = 0 THEN 1 ELSE 0 END): NULL (None) over no rows
SumUnread(rows) ==
    IF rows = {} THEN None ELSE Some(Cardinality({i \in rows : i.is_read = 0}))

\* get_feed_item_counts_by_feed: the row (COUNT(fi.id), SUM(unread)), each
\* column None or the number
get_feed_item_counts_by_feed(fs, items, feed) ==
    LET rows == {i \in items : \E f \in fs : i.feed_id = f.id /\ f.id = feed}
    IN <<Some(Cardinality(rows)), SumUnread(rows)>>

\* the counts of a category without the WHERE f.id IN (...) condition
get_feed_item_counts_all(fs, ls, items, category) ==
    LET rows == {i \in items : \E f \in fs : i.feed_id = f.id}
    IN <<Some(Cardinality(rows)), SumUnread(rows)>>

\* get_feed_item_counts_by_category, by category id
get_feed_item_counts_by_category(fs, ls, items, category) ==
    LET ids == {l.feed_id : l \in {x \in ls : x.category_id = category}}
        rows == {i \in items : \E f \in fs : i.feed_id = f.id /\ f.id \in ids}
    IN <<Some(Cardinality(rows)), SumUnread(rows)>>

\* ORDER BY of TEXT columns: plain (BINARY) comparison, character by character
Alphabet == <<" ", "#", "1", "2", "3", ";", "A", "B", "n", "x">>
CharRank(ch) == CHOOSE k \in 1..Len(Alphabet) : Alphabet[k] = ch

RECURSIVE TextLess(_, _)
TextLess(a, b) ==
    IF b = <<>> THEN FALSE
    ELSE IF a = <<>> THEN TRUE
    ELSE IF Head(a) = Head(b) THEN TextLess(Tail(a), Tail(b))
    ELSE CharRank(Head(a)) < CharRank(Head(b))

\* every order in which the rows of a set can be returned
RECURSIVE Orders(_)
Orders(S) ==
    IF S = {} THEN {<<>>}
    ELSE UNION {{<<x>> \o r : r \in Orders(S \ {x})} : x \in S}

\* the unread_count column of fetch_categories' third query: categories
\* LEFT JOIN feed_categories LEFT JOIN feeds LEFT JOIN feed_items
UnreadOfCategory(fs, ls, items, c) ==
    Cardinality({i \in items :
        /\ i.is_read = 0
        /\ \E l \in ls, f \in fs :
              l.category_id = c.id /\ l.feed_id = f.id /\ i.feed_id = f.id})

\* fetch_categories(conn, 1): ORDER BY name ASC
CategoryBeforeByName(fs, ls, items, a, b) == TextLess(a.name, b.name)

\* fetch_categories(conn, 3): ORDER BY unread_count DESC, c.name ASC
CategoryBefore(fs, ls, items, a, b) ==
    LET ua == UnreadOfCategory(fs, ls, items, a)
        ub == UnreadOfCategory(fs, ls, items, b)
    IN ua > ub \/ (ua = ub /\ TextLess(a.name, b.name))

RECURSIVE SortCategories(_, _, _, _)
SortCategories(fs, ls, items, cs) ==
    IF cs = {} THEN <<>>
    ELSE LET first == CHOOSE a \in cs :
                         \A b \in cs \ {a} : CategoryBefore(fs, ls, items, a, b)
         IN <<first>> \o SortCategories(fs, ls, items, cs \ {first})

fetch_categories(fs, cs, ls, items) == SortCategories(fs, ls, items, cs)

\* fetch_feeds_by_category(conn, name) with the default order: ORDER BY
\* c.name, the same for every row, so the rows come in any order
fetch_feeds_by_category(fs, cs, ls, name) ==
    Orders(FeedsOfCategoryName(fs, cs, ls, name))

\* the lists fetch_all_feeds can build: the listing of each category in
\* turn, appended
RECURSIVE BatchesOf(_, _, _, _)
BatchesOf(fs, cs, ls, catseq) ==
    IF catseq = <<>> THEN {<<>>}
    ELSE {p \o r : p \in fetch_feeds_by_category(fs, cs, ls, Head(catseq).name),
                   r \in BatchesOf(fs, cs, ls, Tail(catseq))}

\* the callers' "x if x is not None else 0"
Coalesce(x) == IF x = None THEN 0 ELSE Get(x)

\* ------------------------------------------------------ read-flag updates
\* UPDATE feed_items SET is_read = ? WHERE feed_id = (the feed of the row)
mark_item_as_read_feed(items, item_id, read) ==
    LET fids == {i.feed_id : i \in {x \in items : x.id = item_id}}
    IN {IF i.feed_id \in fids THEN [i EXCEPT !.is_read = read] ELSE i : i \in items}

\* UPDATE feed_items SET is_read = ? WHERE id = (the feed id)
mark_all_items_as_id(items, feed_id, mark) ==
    {IF i.id = feed_id THEN [i EXCEPT !.is_read = mark] ELSE i : i \in items}

\* UPDATE feed_items SET is_read = ? WHERE id = ?
mark_item_as_read(items, item_id, read) ==
    {IF i.id = item_id THEN [i EXCEPT !.is_read = read] ELSE i : i \in items}

\* UPDATE feed_items SET is_read = ? WHERE feed_id = ?
mark_all_items_as(items, feed_id, mark) ==
    {IF i.feed_id = feed_id THEN [i EXCEPT !.is_read = mark] ELSE i : i \in items}

\* a mark that reaches the items of every feed
mark_category_every(fs, cs, ls, items, name, mark) ==
    {[i EXCEPT !.is_read = mark] : i \in items}

\* mark_category_as: mark_all_items_as for every feed of the listing
mark_category_as(fs, cs, ls, items, name, mark) ==
    LET ids == {f.id : f \in FeedsOfCategoryName(fs, cs, ls, name)}
    IN {IF i.feed_id \in ids THEN [i EXCEPT !.is_read = mark] ELSE i : i \in items}

\* ----------------------------------------------------------------- state
VARIABLES
    feeds,            \* table feeds
    categories,       \* table categories
    feed_categories,  \* table feed_categories
    feed_items,       \* table feed_items (committed rows)
    pc,               \* what the navigation loop is doing
    batch,            \* the feeds of the running category or bulk fetch
    results,          \* bulk fetch: per request, pending or (feed, content)
    items0,           \* bulk fetch: the rows of feed_items when it started
    idx,              \* position of the running loop over batch / results
    summary,          \* the last "Successfully ... X / N feeds" notice
    error,            \* the exception that ended the program, if any
    arrived,          \* bulk fetch: the requests in the order their tasks returned
    last,             \* the store operation that ran last, its flag, whether it raised
    feedfile,         \* the rows of the feed-list file on disk
    typed,            \* the text typed at the last confirmation prompt
    view,             \* the open views, the Categories view first
    exitcode,         \* None while the program runs, then its exit code
    cursor,           \* a list view's current index, start_index and list length
    listing,          \* the rows the open Items view holds (its local feed_items)
    body,             \* what the open Entry view shows, None without one
    llm_config,       \* the global llm_config: None while the name is unbound
    sort              \* Items-in-Feed view: the sort argument of its last 'd' / 't' key

vars == <<feeds, categories, feed_categories, feed_items, pc, batch, results,
          items0, idx, summary, error, arrived, last, feedfile, typed, view,
          exitcode, cursor, listing, body, llm_config, sort>>

tables == <<feeds, categories, feed_categories>>

bulk == <<batch, results, items0, idx, summary, error, arrived>>

\* the file, the prompt and the view stack: untouched by fetches and marks
shell == <<feedfile, typed, view, exitcode>>

\* what the views keep between keys, and the configuration
local == <<cursor, listing, body, llm_config, sort>>

NoSummary == [shown |-> "none", x |-> 0, n |-> 0]

\* an open view and what it shows: a category name, a feed id, an item id
View(name, of) == [name |-> name, of |-> of]

\* the view stack of a program just started: display_categories
CategoriesView == <<View("categories", <<>>)>>

\* the view that reads the keys
Top == view[Len(view)]

Op(name, mark, raised) == [op |-> name, mark |-> mark, raised |-> raised]

\* the cursor of a list view just opened on a list of n rows, in a
\* terminal that shows md rows
NewCursor(kind, n, md) ==
    [list |-> kind, len |-> n, current |-> 0, start_index |-> 0, max_display |-> md]

\* main(): setup_database() on a new file, load_feeds_to_db(feedfile),
\* then the Categories view.  db is the store the load left, cfg what
\* load_config left in llm_config, stack the views open when the first key
\* is read.
Started(db, file, cfg, cur, stack) ==
       /\ feeds = db.feeds
       /\ categories = db.categories
       /\ feed_categories = db.feed_categories
       /\ feed_items = db.feed_items
       /\ pc = "idle"
       /\ batch = <<>>
       /\ results = <<>>
       /\ items0 = {}
       /\ idx = 0
       /\ summary = NoSummary
       /\ error = ""
       /\ arrived = <<>>
       /\ last = Op("main", 0, FALSE)
       /\ feedfile = file
       /\ typed = <<>>
       /\ view = stack
       /\ exitcode = None
       /\ cursor = cur
       /\ listing = <<>>
       /\ body = None
       /\ llm_config = cfg
       /\ sort = 1

\* main() with a .csv feed file
Start(file, cfg, cur, stack) ==
    Started(load_csv_feedfile_to_db(EmptyDb, file), file, cfg, cur, stack)

\* the program started without a configuration file
Init ==
    \E file \in FeedFiles :
        Start(file, None,
              NewCursor("categories",
                        Cardinality(load_csv_feedfile_to_db(EmptyDb, file).categories),
                        MaxDisplay),
              CategoriesView)

\* an uncaught exception leaves the key loop and the program
Crash(exc) ==
    /\ pc' = "crashed"
    /\ error' = exc
    /\ exitcode' = Some(1)
    /\ UNCHANGED view

\* the feeds a Feeds view can show: those of some category's listing
ListedFeeds ==
    UNION {FeedsOfCategoryName(feeds, categories, feed_categories, c.name) :
              c \in categories}

\* whether the entry loop of a fetch with this outcome raises
LoopRaises(items, feed_id, o) ==
    o.kind = "ok" /\ MergeEntries(items, feed_id, o.doc).raised

\* 'f' in the Feeds view: update_feed_items(feeds[current_feed])
FetchFeed ==
    /\ pc = "idle"
    /\ \E f \in ListedFeeds, o \in Outcomes :
          /\ feed_items' = update_feed_items(feed_items, f.id, o)
          /\ last' = Op("update_feed_items", 0, LoopRaises(feed_items, f.id, o))
    /\ UNCHANGED <<shell, tables, pc, bulk>>
    /\ UNCHANGED local

\* 'f' in the Categories view: update_feeds_by_category, the listing.
\* categories[current_category] raises IndexError when no category is listed.
FetchCategory ==
    /\ pc = "idle"
    /\ Top.name = "categories"
    /\ IF categories = {}
       THEN /\ Crash("IndexError")
            /\ UNCHANGED <<batch, idx>>
       ELSE /\ \E c \in categories :
                  \E b \in fetch_feeds_by_category(feeds, categories,
                                                   feed_categories, c.name) :
                      /\ b # <<>>
                      /\ batch' = b
                      /\ idx' = 1
                      /\ pc' = "update_feeds_by_category"
            /\ UNCHANGED <<error, exitcode, view>>
    /\ last' = Op("update_feeds_by_category", 0, FALSE)
    /\ UNCHANGED <<tables, feed_items, results, items0, summary, feedfile, typed>>
    /\ UNCHANGED local
    /\ UNCHANGED arrived

\* update_feeds_by_category, one turn of its loop: update_feed_items(feed)
FetchCategoryStep ==
    /\ pc = "update_feeds_by_category"
    /\ \E o \in BatchOutcomes :
          /\ feed_items' = update_feed_items(feed_items, batch[idx].id, o)
          /\ last' = Op("update_feed_items", 0,
                        LoopRaises(feed_items, batch[idx].id, o))
    /\ IF idx < Len(batch)
       THEN /\ idx' = idx + 1
            /\ UNCHANGED <<pc, batch>>
       ELSE /\ idx' = 0
            /\ batch' = <<>>
            /\ pc' = "idle"
    /\ UNCHANGED <<shell, tables, results, items0, summary, error>>
    /\ UNCHANGED local
    /\ UNCHANGED arrived

\* 'r', 'u' and Enter in an Items view
MarkItem ==
    /\ pc = "idle"
    /\ \E i \in feed_items, read \in {0, 1} :
          /\ \E f \in ListedFeeds : f.id = i.feed_id
          /\ feed_items' = mark_item_as_read(feed_items, i.id, read)
          /\ last' = Op("mark_item_as_read", read, FALSE)
    /\ UNCHANGED <<shell, tables, pc, bulk>>
    /\ UNCHANGED local

\* 'r' and 'u' in the Feeds view
MarkFeed ==
    /\ pc = "idle"
    /\ \E f \in ListedFeeds, mark \in {0, 1} :
          /\ feed_items' = mark_all_items_as(feed_items, f.id, mark)
          /\ last' = Op("mark_all_items_as", mark, FALSE)
    /\ UNCHANGED <<shell, tables, pc, bulk>>
    /\ UNCHANGED local

\* 'r' and 'u' in the Categories view.  categories[current_category]
\* raises IndexError when no category is listed.
MarkCategory ==
    /\ pc = "idle"
    /\ IF categories = {}
       THEN /\ Crash("IndexError")
            /\ last' = Op("mark_category_as", 0, FALSE)
            /\ UNCHANGED feed_items
       ELSE /\ \E c \in categories, mark \in {0, 1} :
                  /\ feed_items' = mark_category_as(feeds, categories,
                                                    feed_categories, feed_items,
                                                    c.name, mark)
                  /\ last' = Op("mark_category_as", mark, FALSE)
            /\ UNCHANGED <<pc, error, exitcode, view>>
    /\ UNCHANGED <<tables, batch, results, items0, idx, summary, feedfile, typed>>
    /\ UNCHANGED local
    /\ UNCHANGED arrived

Next ==
    \/ FetchFeed
    \/ MarkItem
    \/ MarkFeed
    \/ MarkCategory

Spec == Init /\ [][Next]_vars

\* ---------------------------------------------------------- bulk fetch
Pending == [state |-> "pending", content |-> None]
Done(content) == [state |-> "done", content |-> content]

\* 'F' in the Categories view: fetch_all_feeds up to asyncio.run
FetchAllStart ==
    /\ pc = "idle"
    /\ \E b \in BatchesOf(feeds, categories, feed_categories,
                          fetch_categories(feeds, categories, feed_categories,
                                           feed_items)) :
          /\ batch' = b
          /\ results' = [k \in 1..Len(b) |-> Pending]
    /\ items0' = feed_items
    /\ pc' = "fetching"
    /\ idx' = 0
    /\ summary' = NoSummary
    /\ arrived' = <<>>
    /\ last' = Op("fetch_all_feeds", 0, FALSE)
    /\ UNCHANGED <<shell, tables, feed_items, error>>
    /\ UNCHANGED local

\* fetch_feed_content: the result of one task.  Status 200 gives (feed,
\* content), another status or asyncio.TimeoutError gives (feed, None);
\* any other exception leaves the task, gather and asyncio.run.
fetch_feed_content(o) ==
    IF o.kind = "ok" THEN [raised |-> FALSE, result |-> Done(Some(o.doc))]
    ELSE IF o.kind \in {"status", "timeout"}
         THEN [raised |-> FALSE, result |-> Done(None)]
    ELSE [raised |-> TRUE, result |-> Pending]

\* a response whose entries are merged as soon as it arrives
RespondMerging ==
    /\ pc = "fetching"
    /\ \E k \in 1..Len(results), o \in BatchOutcomes :
          /\ results[k] = Pending
          /\ LET r == fetch_feed_content(o)
             IN IF r.raised
                THEN /\ pc' = "crashed"
                     /\ error' = "ClientConnectorError"
                     /\ UNCHANGED <<results, arrived, feed_items>>
                ELSE /\ results' = [results EXCEPT ![k] = r.result]
                     /\ arrived' = Append(arrived, k)
                     /\ feed_items' = update_feed_items_according_to_content(
                                          feed_items, batch[k].id,
                                          r.result.content).items
                     /\ UNCHANGED <<pc, error>>
    /\ UNCHANGED <<shell, tables, batch, items0, idx, summary, last>>
    /\ UNCHANGED local

\* one request of the batch ends, in any order
Respond ==
    /\ pc = "fetching"
    /\ \E k \in 1..Len(results), o \in BatchOutcomes :
          /\ results[k] = Pending
          /\ LET r == fetch_feed_content(o)
             IN IF r.raised
                THEN /\ pc' = "crashed"
                     /\ error' = "ClientConnectorError"
                     /\ UNCHANGED <<results, arrived>>
                ELSE /\ results' = [results EXCEPT ![k] = r.result]
                     /\ arrived' = Append(arrived, k)
                     /\ UNCHANGED <<pc, error>>
    /\ UNCHANGED <<shell, tables, feed_items, batch, items0, idx, summary, last>>
    /\ UNCHANGED local

Succeeded(rs) == Cardinality({k \in 1..Len(rs) : rs[k].content # None})

\* asyncio.gather returns: the "Successfully fetch X / N" notice
Gathered ==
    /\ pc = "fetching"
    /\ \A k \in 1..Len(results) : results[k] # Pending
    /\ summary' = [shown |-> "fetch", x |-> Succeeded(results), n |-> Len(results)]
    /\ pc' = "merging"
    /\ idx' = 1
    /\ UNCHANGED <<shell, tables, feed_items, batch, results, items0, error, last>>
    /\ UNCHANGED local
    /\ UNCHANGED arrived

\* a loop that merges the results in the order the responses arrived
MergeNextArrival ==
    /\ pc = "merging"
    /\ idx <= Len(results)
    /\ LET k == arrived[idx]
           r == update_feed_items_according_to_content(
                    feed_items, batch[k].id, results[k].content)
       IN /\ last' = Op("update_feed_items_according_to_content", 0, r.raised)
          /\ feed_items' = r.items
          /\ IF r.raised
             THEN /\ pc' = "crashed"
                  /\ error' = "AttributeError"
                  /\ UNCHANGED idx
             ELSE /\ idx' = idx + 1
                  /\ UNCHANGED <<pc, error>>
    /\ UNCHANGED <<shell, tables, batch, results, items0, summary>>
    /\ UNCHANGED local
    /\ UNCHANGED arrived

\* one turn of "for result in results": commit, or the exception ends the
\* program and the open transaction is rolled back with the connection
MergeNext ==
    /\ pc = "merging"
    /\ idx <= Len(results)
    /\ LET r == update_feed_items_according_to_content(
                    feed_items, batch[idx].id, results[idx].content)
       IN /\ last' = Op("update_feed_items_according_to_content", 0, r.raised)
          /\ feed_items' = r.items
          /\ IF r.raised
             THEN /\ pc' = "crashed"
                  /\ error' = "AttributeError"
                  /\ UNCHANGED idx
             ELSE /\ idx' = idx + 1
                  /\ UNCHANGED <<pc, error>>
    /\ UNCHANGED <<shell, tables, batch, results, items0, summary>>
    /\ UNCHANGED local
    /\ UNCHANGED arrived

\* the "Successfully update X / N" notice, back to the Categories view
FetchAllDone ==
    /\ pc = "merging"
    /\ idx > Len(results)
    /\ summary' = [shown |-> "update", x |-> Succeeded(results), n |-> Len(results)]
    /\ pc' = "idle"
    /\ batch' = <<>>
    /\ results' = <<>>
    /\ items0' = {}
    /\ idx' = 0
    /\ arrived' = <<>>
    /\ UNCHANGED <<shell, tables, feed_items, error, last>>
    /\ UNCHANGED local

NextBatch ==
    \/ FetchAllStart
    \/ Respond
    \/ Gathered
    \/ MergeNext
    \/ FetchAllDone
    \/ FetchCategory
    \/ FetchCategoryStep
    \/ MarkFeed

SpecBatch == Init /\ [][NextBatch]_vars

\* the event loop runs every task until it returns or its timeout ends it,
\* and the loop over the results runs to its end: no step that can be taken
\* is put off for ever
SpecBatchFair ==
    /\ SpecBatch
    /\ WF_vars(Respond)
    /\ WF_vars(Gathered)
    /\ WF_vars(MergeNext)
    /\ WF_vars(FetchAllDone)
    /\ WF_vars(FetchCategoryStep)

\* ------------------------------------------------ maintenance operations
\* the LIMIT of clean_database's DELETE
DeleteLimit == 10

\* what may be typed at a confirmation prompt (the text when Enter is hit)
Typed ==
    { <<"y", "e", "s">>, <<"Y", "E", "s">>, <<"n", "o">>, <<"y">> }

\* str.lower()
LowerChar(ch) ==
    CASE ch = "Y" -> "y" [] ch = "E" -> "e" [] ch = "S" -> "s"
      [] ch = "N" -> "n" [] ch = "O" -> "o" [] OTHER -> ch

Lower(t) == [k \in 1..Len(t) |-> LowerChar(t[k])]

\* a prompt that takes any text beginning with y
confirm_prefix(text) == text # <<>> /\ LowerChar(Head(text)) = "y"

\* confirm(): True exactly when the lowered text is 'yes'
confirm(text) == Lower(text) = <<"y", "e", "s">>

\* the sqlite library python is linked with: with or without
\* SQLITE_ENABLE_UPDATE_DELETE_LIMIT (DELETE ... ORDER BY ... LIMIT)
Builds == {"delete_limit", "plain"}

\* the database file as a connection just opened sees it
Opened(fs, cs, ls, items) ==
    [ feeds |-> fs, categories |-> cs, feed_categories |-> ls,
      feed_items |-> items, lastrowid |-> 0 ]

\* load_feeds_to_db: the feed file exists and is a .csv
load_feeds_to_db(db, file) == load_csv_feedfile_to_db(db, file)

\* delete_database_file: DROP the four tables, setup_database(), load
delete_database_file(db, file, text) ==
    IF confirm(text) THEN load_feeds_to_db(EmptyDb, file) ELSE db

Min(a, b) == IF a <= b THEN a ELSE b

\* DELETE FROM feed_items WHERE feed_id = ? ORDER BY last_updated DESC
\* LIMIT 10: the row sets the statement may delete (ties in any order)
DeleteChoices(rows) ==
    {D \in SUBSET rows :
        /\ Cardinality(D) = Min(DeleteLimit, Cardinality(rows))
        /\ \A d \in D, r \in rows \ D : d.last_updated >= r.last_updated}

\* the loop of clean_database over SELECT id FROM feeds
RECURSIVE CleanFeeds(_, _)
CleanFeeds(items, ids) ==
    IF ids = {} THEN {items}
    ELSE LET id == CHOOSE x \in ids : TRUE
         IN UNION {CleanFeeds(items \ D, ids \ {id}) :
                       D \in DeleteChoices({i \in items : i.feed_id = id})}

\* clean_database: the stores it may leave.  Where the library rejects the
\* statement, the first DELETE raises, the error is shown and nothing is
\* committed.
clean_database(db, text, build) ==
    IF ~confirm(text) THEN {db}
    ELSE IF build = "plain" THEN {db}
    ELSE {[db EXCEPT !.feed_items = x] :
              x \in CleanFeeds(db.feed_items, {f.id : f \in db.feeds})}

\* load_feed_urls: the URL column of every row csv.DictReader yields
load_feed_urls(file) == {file[k].URL : k \in 1..Len(file)}

\* whether SQL's  x NOT IN (S)  is true (NULL compares as unknown)
SqlNotIn(x, S) ==
    IF S = {} THEN TRUE
    ELSE IF x = NULL THEN FALSE
    ELSE IF x \in S THEN FALSE
    ELSE NULL \notin S

\* clear_feeds_not_in_csv: the local set "feeds" stays empty, since the
\* value of load_feed_urls(feedfile) is not assigned to it
clear_feeds_not_in_csv(db, file, text) ==
    IF ~confirm(text) THEN db
    ELSE LET fset == {}
             loaded == load_feed_urls(file)
             feeds_to_delete == {f.url : f \in {g \in db.feeds : g.url \notin fset}}
             d1 == [db EXCEPT !.feeds = {f \in @ : f.url \notin feeds_to_delete}]
             cats == {f.category : f \in d1.feeds}
         IN [d1 EXCEPT !.feeds = {f \in @ : ~SqlNotIn(f.category, cats)}]

\* the feed file after the user took rows out of it: one feed, one category
EditedFiles == { <<RowA>> }

\* a later run of the program: main() on the database file the earlier runs
\* left, with the feed file as it was or as the user edited it
Restart ==
    /\ pc = "idle"
    /\ \E file \in {feedfile} \cup EditedFiles :
          LET db == load_feeds_to_db(
                        Opened(feeds, categories, feed_categories, feed_items), file)
          IN /\ feeds' = db.feeds
             /\ categories' = db.categories
             /\ feed_categories' = db.feed_categories
             /\ feedfile' = file
             /\ cursor' = NewCursor("categories", Cardinality(db.categories),
                                    MaxDisplay)
             /\ last' = Op("main", IF file = feedfile THEN 1 ELSE 0, FALSE)
    /\ typed' = <<>>
    /\ view' = CategoriesView
    /\ UNCHANGED <<feed_items, pc, bulk, exitcode>>
    /\ UNCHANGED <<listing, body, llm_config, sort>>

\* '!' in the Categories view
ResetDatabase ==
    /\ pc = "idle"
    /\ \E text \in Typed :
          LET db == delete_database_file(
                        Opened(feeds, categories, feed_categories, feed_items),
                        feedfile, text)
          IN /\ feeds' = db.feeds
             /\ categories' = db.categories
             /\ feed_categories' = db.feed_categories
             /\ feed_items' = db.feed_items
             /\ typed' = text
    /\ last' = Op("delete_database_file", 0, FALSE)
    /\ UNCHANGED <<pc, bulk, feedfile, view, exitcode>>
    /\ UNCHANGED local

\* '%' in the Categories view
CleanDatabase ==
    /\ pc = "idle"
    /\ \E text \in Typed, build \in Builds :
          /\ \E db \in clean_database(
                          Opened(feeds, categories, feed_categories, feed_items),
                          text, build) :
                feed_items' = db.feed_items
          /\ typed' = text
    /\ last' = Op("clean_database", 0, FALSE)
    /\ UNCHANGED <<tables, pc, bulk, feedfile, view, exitcode>>
    /\ UNCHANGED local

\* '#' in the Categories view
ClearOrphans ==
    /\ pc = "idle"
    /\ \E text \in Typed :
          LET db == clear_feeds_not_in_csv(
                        Opened(feeds, categories, feed_categories, feed_items),
                        feedfile, text)
          IN /\ feeds' = db.feeds
             /\ typed' = text
    /\ last' = Op("clear_feeds_not_in_csv", 0, FALSE)
    /\ UNCHANGED <<categories, feed_categories, feed_items, pc, bulk, feedfile,
                   view, exitcode>>
    /\ UNCHANGED local

NextStore ==
    \/ Restart
    \/ ResetDatabase
    \/ CleanDatabase
    \/ ClearOrphans
    \/ FetchCategory
    \/ FetchCategoryStep

SpecStore == Init /\ [][NextStore]_vars

\* --------------------------------------------------------- navigation
\* fetch_feed_items: the rows an Items-in-Feed view lists
fetch_feed_items(items, feed_id) == {i \in items : i.feed_id = feed_id}

\* get_feed_items_bycategory: the rows an Items-in-Category view lists
get_feed_items_bycategory(fs, cs, ls, items, name) ==
    {i \in items : \E f \in FeedsOfCategoryName(fs, cs, ls, name) : f.id = i.feed_id}

\* ORDER BY last_updated DESC: every result list the engine may return (rows
\* of equal last_updated come in any order)
OrderByLastUpdatedDesc(rows) ==
    {s \in Orders(rows) :
        \A j \in 1..(Len(s) - 1) : s[j].last_updated >= s[j + 1].last_updated}

\* the place of a title in the order of the titles the documents carry
TitleRank(title) == CASE title = "t1" -> 1 [] title = "t2" -> 2 [] OTHER -> 0

\* ORDER BY title DESC
OrderByTitleDesc(rows) ==
    {s \in Orders(rows) :
        \A j \in 1..(Len(s) - 1) : TitleRank(s[j].title) >= TitleRank(s[j + 1].title)}

\* the result lists of fetch_feed_items(conn, feed_id, sort)
FetchSorted(items, feed_id, by) ==
    IF by = 1 THEN OrderByLastUpdatedDesc(fetch_feed_items(items, feed_id))
    ELSE OrderByTitleDesc(fetch_feed_items(items, feed_id))

\* the number of unread rows the header of an Items view shows
unread_count(rows) == Cardinality({j \in 1..Len(rows) : rows[j].is_read = 0})

\* a statement on the connection either runs or raises sqlite3.Error
StoreOutcomes == {"ok", "error"}

\* Enter / Right in the Categories view: display_feeds(categories[current])
EnterFeeds ==
    /\ pc = "idle"
    /\ Top.name = "categories"
    /\ IF categories = {}
       THEN Crash("IndexError")
       ELSE /\ \E c \in categories : view' = Append(view, View("feeds", c.name))
            /\ UNCHANGED <<pc, error, exitcode>>
    /\ last' = Op("display_feeds", 0, categories = {})
    /\ UNCHANGED <<tables, feed_items, batch, results, items0, idx, summary,
                   feedfile, typed>>
    /\ UNCHANGED local
    /\ UNCHANGED arrived

\* TAB in the Categories view: display_category_feed_items
EnterCategoryItems ==
    /\ pc = "idle"
    /\ Top.name = "categories"
    /\ IF categories = {}
       THEN /\ Crash("IndexError")
            /\ UNCHANGED listing
       ELSE /\ \E c \in categories :
                  /\ view' = Append(view, View("items_category", c.name))
                  /\ listing' \in OrderByLastUpdatedDesc(
                         get_feed_items_bycategory(feeds, categories,
                             feed_categories, feed_items, c.name))
            /\ UNCHANGED <<pc, error, exitcode>>
    /\ last' = Op("display_category_feed_items", 0, categories = {})
    /\ UNCHANGED <<tables, feed_items, batch, results, items0, idx, summary,
                   feedfile, typed>>
    /\ UNCHANGED <<cursor, body, llm_config, sort>>
    /\ UNCHANGED arrived

\* Enter / Right in the Feeds view: display_feed_items(feeds[current_feed])
EnterItems ==
    /\ pc = "idle"
    /\ Top.name = "feeds"
    /\ LET fs == FeedsOfCategoryName(feeds, categories, feed_categories, Top.of)
       IN /\ IF fs = {}
             THEN /\ Crash("IndexError")
                  /\ UNCHANGED listing
             ELSE /\ \E f \in fs :
                        /\ view' = Append(view, View("items_feed", f.id))
                        /\ listing' \in OrderByLastUpdatedDesc(
                               fetch_feed_items(feed_items, f.id))
                  /\ UNCHANGED <<pc, error, exitcode>>
          /\ last' = Op("display_feed_items", 0, fs = {})
    /\ sort' = 1
    /\ UNCHANGED <<tables, feed_items, batch, results, items0, idx, summary,
                   feedfile, typed>>
    /\ UNCHANGED <<cursor, body, llm_config>>
    /\ UNCHANGED arrived

\* the rows the store holds for the Items view v
RowsOf(v, items) ==
    IF v.name = "items_feed" THEN fetch_feed_items(items, v.of)
    ELSE get_feed_items_bycategory(feeds, categories, feed_categories,
                                   items, v.of)

\* the rows the Items view on top lists
ListedItems == RowsOf(Top, feed_items)

\* letters of the texts the documents carry: ASCII letters and characters
TextStats(text) ==
    CASE text = "c1" -> [english_chars |-> 7, total_chars |-> 10]
      [] text = "c2" -> [english_chars |-> 6, total_chars |-> 10]
      [] text = "s1" -> [english_chars |-> 8, total_chars |-> 10]
      [] text = "s2" -> [english_chars |-> 0, total_chars |-> 10]
      [] OTHER -> [english_chars |-> 0, total_chars |-> 0]

\* is_english_text: more than 60% of the characters are ASCII letters
is_english_text(text) ==
    /\ text # ""
    /\ TextStats(text).total_chars > 0
    /\ 10 * TextStats(text).english_chars > 6 * TextStats(text).total_chars

\* what the chat completion of the translation service does: a text, an
\* exception (network, authentication), or a completion without content
ServiceOutcomes ==
    { [kind |-> "ok", content |-> "zh"],
      [kind |-> "raises", content |-> NULL],
      [kind |-> "none", content |-> NULL] }

\* a service call whose exception leaves englishSummarize
englishSummarizeNoCatch(text, service) ==
    IF service.kind = "ok" THEN [raised |-> FALSE, value |-> service.content]
    ELSE [raised |-> TRUE, value |-> NULL]

\* englishSummarize: _translator.summarize(text), then .replace on the
\* result, both inside try; except Exception: return text
englishSummarize(text, service) ==
    IF service.kind = "ok" THEN [raised |-> FALSE, value |-> service.content]
    ELSE [raised |-> FALSE, value |-> text]

\* englishTranslate: return _translator.translate(text) inside try;
\* except Exception: return text
englishTranslate(text, service) ==
    IF service.kind = "raises" THEN [raised |-> FALSE, value |-> text]
    ELSE [raised |-> FALSE, value |-> service.content]

\* display_feed_entry up to the wrapped text: content, or summary when the
\* content is empty
origin_plain_text(row) == IF row.content = "" THEN row.summary ELSE row.content

\* Enter / Right in an Items view with rows: mark_item_as_read, then
\* display_feed_entry
EnterEntry ==
    /\ pc = "idle"
    /\ Top.name \in {"items_feed", "items_category"}
    /\ listing # <<>>
    /\ \E k \in 1..Len(listing), store \in StoreOutcomes, service \in ServiceOutcomes :
          LET item_id == listing[k].id
              marked == mark_item_as_read(feed_items, item_id, 1)
              row == CHOOSE r \in marked : r.id = item_id
              text == origin_plain_text(row)
              english == is_english_text(text)
              ch_summary == englishSummarize(text, service)
          IN  IF store = "error"
              THEN /\ Crash("OperationalError")
                   /\ last' = Op("display_feed_entry", 1, TRUE)
                   /\ UNCHANGED <<feed_items, body>>
              ELSE IF english /\ llm_config = None
              THEN /\ feed_items' = marked
                   /\ Crash("NameError")
                   /\ last' = Op("display_feed_entry", 1, TRUE)
                   /\ UNCHANGED body
              ELSE IF english /\ ch_summary.raised
              THEN /\ feed_items' = marked
                   /\ Crash("ServiceError")
                   /\ last' = Op("display_feed_entry", 1, TRUE)
                   /\ UNCHANGED body
              ELSE /\ feed_items' = marked
                   /\ view' = Append(view, View("entry", item_id))
                   /\ body' = Some([ item |-> item_id,
                                     service |-> IF english THEN service.kind
                                                 ELSE "unused",
                                     plain_text |->
                                        IF english
                                        THEN <<ch_summary.value, "------", text>>
                                        ELSE <<text>> ])
                   /\ last' = Op("display_feed_entry", 1, FALSE)
                   /\ UNCHANGED <<pc, error, exitcode>>
    /\ UNCHANGED <<tables, batch, results, items0, idx, summary, feedfile, typed>>
    /\ UNCHANGED <<cursor, listing, llm_config, sort>>
    /\ UNCHANGED arrived

\* 'r' / 'u' in an Items view: mark_item_as_read(feed_items[current_item]),
\* then the listing is fetched again
MarkListedItem ==
    /\ pc = "idle"
    /\ Top.name \in {"items_feed", "items_category"}
    /\ \E read \in {0, 1}, store \in StoreOutcomes :
          IF listing = <<>>
          THEN /\ Crash("IndexError")
               /\ last' = Op("mark_item_as_read", read, TRUE)
               /\ UNCHANGED <<feed_items, listing>>
          ELSE IF store = "error"
          THEN /\ Crash("OperationalError")
               /\ last' = Op("mark_item_as_read", read, TRUE)
               /\ UNCHANGED <<feed_items, listing>>
          ELSE \E k \in 1..Len(listing) :
                  LET marked == mark_item_as_read(feed_items, listing[k].id, read)
                  IN /\ feed_items' = marked
                     /\ listing' \in OrderByLastUpdatedDesc(RowsOf(Top, marked))
                     /\ last' = Op("mark_item_as_read", read, FALSE)
                     /\ UNCHANGED <<pc, error, exitcode, view>>
    /\ UNCHANGED <<tables, batch, results, items0, idx, summary, feedfile, typed>>
    /\ UNCHANGED <<cursor, body, llm_config, sort>>
    /\ UNCHANGED arrived

\* 'd' in the Items-in-Feed view: feed_items = fetch_feed_items(conn, feed[0])
SortByDate ==
    /\ pc = "idle"
    /\ Top.name = "items_feed"
    /\ listing' \in FetchSorted(feed_items, Top.of, 1)
    /\ sort' = 1
    /\ last' = Op("fetch_feed_items", 1, FALSE)
    /\ UNCHANGED <<tables, feed_items, pc, bulk, shell>>
    /\ UNCHANGED <<cursor, body, llm_config>>

\* 't' in the Items-in-Feed view: feed_items = fetch_feed_items(conn, feed[0], 2)
SortByTitle ==
    /\ pc = "idle"
    /\ Top.name = "items_feed"
    /\ listing' \in FetchSorted(feed_items, Top.of, 2)
    /\ sort' = 2
    /\ last' = Op("fetch_feed_items", 2, FALSE)
    /\ UNCHANGED <<tables, feed_items, pc, bulk, shell>>
    /\ UNCHANGED <<cursor, body, llm_config>>

\* 'l' / Right in the Entry view: display_links(feed_item)
EnterLinks ==
    /\ pc = "idle"
    /\ Top.name = "entry"
    /\ view' = Append(view, View("links", Top.of))
    /\ last' = Op("display_links", 0, FALSE)
    /\ UNCHANGED <<tables, feed_items, pc, bulk, feedfile, typed, exitcode>>
    /\ UNCHANGED local

\* a Back that closes every view above the Categories view
BackToCategories ==
    /\ pc = "idle"
    /\ Len(view) > 1
    /\ view' = CategoriesView
    /\ listing' = <<>>
    /\ body' = None
    /\ last' = Op("back", 0, FALSE)
    /\ UNCHANGED <<tables, feed_items, pc, bulk, feedfile, typed, exitcode>>
    /\ UNCHANGED <<cursor, llm_config, sort>>

\* a Back from the Entry view after which the Items view keeps the list it
\* fetched when it was opened
BackNoRefresh ==
    /\ pc = "idle"
    /\ Len(view) > 1
    /\ view' = SubSeq(view, 1, Len(view) - 1)
    /\ listing' = IF Top.name \in {"items_feed", "items_category"} THEN <<>>
                  ELSE listing
    /\ body' = IF Top.name = "entry" THEN None ELSE body
    /\ last' = Op("back", 0, FALSE)
    /\ UNCHANGED <<tables, feed_items, pc, bulk, feedfile, typed, exitcode>>
    /\ UNCHANGED <<cursor, llm_config, sort>>

\* ESC / Left in a view opened from another: break, the caller's loop reads
\* the next key.  The Items view that called display_feed_entry fetches its
\* list again first.
Back ==
    /\ pc = "idle"
    /\ Len(view) > 1
    /\ view' = SubSeq(view, 1, Len(view) - 1)
    /\ IF Top.name = "entry"
       THEN listing' \in OrderByLastUpdatedDesc(RowsOf(view[Len(view) - 1], feed_items))
       ELSE IF Top.name \in {"items_feed", "items_category"}
       THEN listing' = <<>>
       ELSE listing' = listing
    /\ body' = IF Top.name = "entry" THEN None ELSE body
    /\ last' = Op("back", 0, FALSE)
    /\ UNCHANGED <<tables, feed_items, pc, bulk, feedfile, typed, exitcode>>
    /\ UNCHANGED <<cursor, llm_config, sort>>

\* a quit key the Links view does not take
QuitOutsideLinks ==
    /\ pc = "idle"
    /\ Top.name # "links"
    /\ pc' = "exited"
    /\ exitcode' = Some(0)
    /\ last' = Op("quit", 0, FALSE)
    /\ UNCHANGED <<tables, feed_items, bulk, feedfile, typed, view>>
    /\ UNCHANGED local

\* 'q' in any view: exit(0); in the Categories view (also ESC / Left) the
\* loop breaks and main() returns
Quit ==
    /\ pc = "idle"
    /\ pc' = "exited"
    /\ exitcode' = Some(0)
    /\ last' = Op("quit", 0, FALSE)
    /\ UNCHANGED <<tables, feed_items, bulk, feedfile, typed, view>>
    /\ UNCHANGED local

\* main() with or without an [LLM] section in the configuration file
InitNav ==
    \E file \in FeedFiles, cfg \in {None, Some("LLM")} :
        Start(file, cfg,
              NewCursor("categories",
                        Cardinality(load_csv_feedfile_to_db(EmptyDb, file).categories),
                        MaxDisplay),
              CategoriesView)

NextNav ==
    \/ EnterFeeds
    \/ EnterCategoryItems
    \/ EnterItems
    \/ EnterEntry
    \/ MarkListedItem
    \/ SortByDate
    \/ SortByTitle
    \/ EnterLinks
    \/ Back
    \/ Quit
    \/ FetchCategory
    \/ FetchCategoryStep

SpecNav == InitNav /\ [][NextNav]_vars

\* ------------------------------------------------------ category listing
\* rows of a feed-list file: a feed of category B alone, and a row that
\* repeats the url of RowAB under another category
RowB == [Name |-> <<"n", "3">>, URL |-> "u3", Category |-> <<"B">>, Tags |-> ""]
RowDupX == [Name |-> <<"n", "1">>, URL |-> "u1", Category |-> <<"x">>, Tags |-> ""]

\* feed-list files whose categories do not share all their feeds
ListFiles == { <<RowA, RowB>>, <<RowAB, RowB>>, <<RowAB, RowDupX>> }

\* the program started on one of these files
InitList ==
    \E file \in ListFiles :
        Start(file, None,
              NewCursor("categories",
                        Cardinality(load_csv_feedfile_to_db(EmptyDb, file).categories),
                        MaxDisplay),
              CategoriesView)

SpecList == InitList /\ [][Next]_vars

\* ------------------------------------------------------- outline files
\* an <outline> element: its text and xmlUrl attributes (None when the
\* attribute is absent) and its <outline> children
Outline(text, xmlUrl, kids) == [text |-> text, xmlUrl |-> xmlUrl, kids |-> kids]

\* process_outline(outline, category_stack): the descriptors appended to
\* feeds, in order.  Each child's text is pushed before the call on the child
\* and popped after it.
RECURSIVE process_outline(_, _)
RECURSIVE process_children(_, _)
process_outline(outline, category_stack) ==
    (IF outline.xmlUrl # None
     THEN << [ name |-> IF outline.text # None THEN Get(outline.text) ELSE <<>>,
               url |-> Get(outline.xmlUrl),
               category |-> category_stack ] >>
     ELSE <<>>)
    \o process_children(outline.kids, category_stack)

process_children(kids, category_stack) ==
    IF kids = <<>> THEN <<>>
    ELSE LET child == Head(kids)
         IN process_outline(child,
                            IF child.text # None
                            THEN Append(category_stack, Get(child.text))
                            ELSE category_stack)
            \o process_children(Tail(kids), category_stack)

\* extract_feeds_from_opml_file: every outline of <body> starts a stack that
\* holds its own text
RECURSIVE extract_feeds_from_opml_file(_)
extract_feeds_from_opml_file(body_outlines) ==
    IF body_outlines = <<>> THEN <<>>
    ELSE LET outline == Head(body_outlines)
         IN process_outline(outline,
                            IF outline.text # None THEN <<Get(outline.text)>>
                            ELSE <<>>)
            \o extract_feeds_from_opml_file(Tail(body_outlines))

\* a loader that takes the innermost label of the path
category_field_last(feed) ==
    IF feed.category # <<>> THEN feed.category[Len(feed.category)] ELSE <<>>

\* feed['category'][0] if feed['category'] else ''
category_field(feed) ==
    IF feed.category # <<>> THEN feed.category[1] ELSE <<>>

\* load_opml_feedfile_to_db: one descriptor
LoadOpmlFeed(db, feed) ==
    LET d1 == InsertFeed(db, feed.name, feed.url, category_field(feed))
        feed_id == d1.lastrowid
    IN IF Len(category_field(feed)) > 0
       THEN LinkCategories(d1, feed_id, SplitSemi(category_field(feed)))
       ELSE d1

RECURSIVE LoadOpmlFeeds(_, _)
LoadOpmlFeeds(db, fds) ==
    IF fds = <<>> THEN db
    ELSE LoadOpmlFeeds(LoadOpmlFeed(db, Head(fds)), Tail(fds))

load_opml_feedfile_to_db(db, body_outlines) ==
    LoadOpmlFeeds(db, extract_feeds_from_opml_file(body_outlines))

\* outlines of the files: feeds with and without a text, folders
FeedN1 == Outline(Some(<<"n", "1">>), Some("u1"), <<>>)
FeedN2 == Outline(Some(<<"n", "2">>), Some("u2"), <<>>)
FeedBare == Outline(None, Some("u1"), <<>>)
Folder(label, kids) == Outline(label, None, kids)

\* the <body> of the .opml files the program is started with
OpmlFiles ==
    { << Folder(Some(<<"A">>), << Folder(Some(<<"B">>), <<FeedN1>>) >>) >>,
      << Folder(Some(<<"A">>), <<FeedN1, FeedN2>>) >>,
      << FeedN1 >>,
      << FeedBare >>,
      << Folder(Some(<<"A">>), <<FeedBare>>), Folder(Some(<<"B">>), <<FeedN2>>) >>,
      << Folder(None, << Folder(Some(<<"B">>), <<FeedN1>>) >>) >>,
      << Folder(Some(<<"A">>), <<FeedN1>>), Folder(Some(<<"B">>), <<FeedN1>>) >>,
      << Folder(Some(<<"A">>), << Folder(Some(<<"B">>), <<FeedBare>>), FeedN2 >>) >>,
      << Folder(Some(<<"B">>), << Folder(Some(<<"A">>), <<FeedN2>>) >>), FeedN1 >>,
      << Folder(Some(<<"A">>), <<>>) >>,
      << >> }

\* main() with a .opml feed file
InitOpml ==
    \E file \in OpmlFiles, cfg \in {None, Some("LLM")} :
        LET db == load_opml_feedfile_to_db(EmptyDb, file)
        IN Started(db, file, cfg,
                   NewCursor("categories", Cardinality(db.categories), MaxDisplay),
                   CategoriesView)

NextOpml ==
    \/ EnterFeeds
    \/ EnterItems
    \/ EnterCategoryItems
    \/ Back
    \/ Quit

SpecOpml == InitOpml /\ [][NextOpml]_vars

\* ----------------------------------------------------------- list cursors
\* the list views and the function whose loop handles their keys
ListViews == {"categories", "feeds", "items_feed", "items_category", "links"}

\* the views whose loop has KEY_PPAGE / KEY_NPAGE branches
Paged == {"categories", "feeds", "items_feed", "items_category"}

\* KEY_UP and current > 0
KEY_UP(c) ==
    IF c.current > 0
    THEN LET cur == c.current - 1
         IN [c EXCEPT !.current = cur,
                      !.start_index = IF cur < c.start_index
                                      THEN Max({0, c.start_index - 1})
                                      ELSE c.start_index]
    ELSE c

\* KEY_DOWN and current < len(list) - 1
KEY_DOWN(c) ==
    IF c.current < c.len - 1
    THEN LET cur == c.current + 1
         IN [c EXCEPT !.current = cur,
                      !.start_index = IF cur >= c.start_index + c.max_display
                                      THEN c.start_index + 1
                                      ELSE c.start_index]
    ELSE c

\* KEY_PPAGE
KEY_PPAGE(c) ==
    IF c.list \notin Paged THEN c
    ELSE IF c.start_index > 0
    THEN [c EXCEPT !.start_index = Max({0, c.start_index - c.max_display}),
                   !.current = Max({0, c.current - c.max_display})]
    ELSE [c EXCEPT !.current = 0]

\* KEY_NPAGE: on the last page the Categories and Feeds views set the
\* cursor to len - 1, the Items views to min(len - 1, current + max_display)
KEY_NPAGE(c) ==
    IF c.list \notin Paged THEN c
    ELSE IF c.start_index + c.max_display < c.len
    THEN [c EXCEPT !.start_index = c.start_index + c.max_display,
                   !.current = Min(c.len - 1, c.current + c.max_display)]
    ELSE IF c.list \in {"categories", "feeds"}
    THEN [c EXCEPT !.current = c.len - 1]
    ELSE [c EXCEPT !.current = Min(c.len - 1, c.current + c.max_display)]

\* KEY_HOME
KEY_HOME(c) == [c EXCEPT !.current = 0, !.start_index = 0]

\* KEY_END
KEY_END(c) ==
    [c EXCEPT !.current = c.len - 1,
              !.start_index = Max({0, c.len - c.max_display})]

\* 'o': the next sort order.  The Feeds view fetches its list again and
\* sets current_feed = 0, the Categories view fetches its list again; the
\* lists keep their length
KEY_o(c) == IF c.list = "feeds" THEN [c EXCEPT !.current = 0] ELSE c

\* what a pass of the view loop on a cursor key leaves alone
KeyPressed(key) ==
    /\ last' = Op(key, 0, FALSE)
    /\ UNCHANGED <<tables, feed_items, pc, bulk, shell, listing, body, llm_config, sort>>

Up ==
    /\ pc = "idle"
    /\ cursor' = KEY_UP(cursor)
    /\ KeyPressed("KEY_UP")

Down ==
    /\ pc = "idle"
    /\ cursor' = KEY_DOWN(cursor)
    /\ KeyPressed("KEY_DOWN")

PageUp ==
    /\ pc = "idle"
    /\ cursor' = KEY_PPAGE(cursor)
    /\ KeyPressed("KEY_PPAGE")

PageDown ==
    /\ pc = "idle"
    /\ cursor' = KEY_NPAGE(cursor)
    /\ KeyPressed("KEY_NPAGE")

Home ==
    /\ pc = "idle"
    /\ cursor' = KEY_HOME(cursor)
    /\ KeyPressed("KEY_HOME")

End ==
    /\ pc = "idle"
    /\ cursor' = KEY_END(cursor)
    /\ KeyPressed("KEY_END")

SortOrder ==
    /\ pc = "idle"
    /\ cursor' = KEY_o(cursor)
    /\ KeyPressed("o")

\* the views open below a list view of each kind
StackOf(kind) ==
    CASE kind = "categories" -> CategoriesView
      [] kind = "feeds" -> Append(CategoriesView, View("feeds", <<"A">>))
      [] kind = "items_category" ->
            Append(CategoriesView, View("items_category", <<"A">>))
      [] kind = "items_feed" ->
            CategoriesView \o <<View("feeds", <<"A">>), View("items_feed", 1)>>
      [] kind = "links" ->
            CategoriesView \o <<View("feeds", <<"A">>), View("items_feed", 1),
                                View("entry", 1), View("links", 1)>>

\* a list view just opened on a list of n rows in a terminal of md list
\* rows; the Links view always lists the item's own link
InitCursor ==
    \E kind \in ListViews, n \in 0..MaxList, md \in 1..MaxDisplay :
        /\ kind = "links" => n >= 1
        /\ Start(<<RowAB>>, None, NewCursor(kind, n, md), StackOf(kind))

NextCursor == Up \/ Down \/ PageUp \/ PageDown \/ Home \/ End \/ SortOrder

SpecCursor == InitCursor /\ [][NextCursor]_vars

\* ------------------------------------------------------------ entry scroll
\* display_feed_entry keeps current_line_index (cursor.current) over the
\* num_lines wrapped lines of the body (cursor.len); a page is
\* curses.LINES - 5 lines (cursor.max_display).
entry_KEY_UP(c) ==
    IF c.current > 0 THEN [c EXCEPT !.current = c.current - 1] ELSE c

entry_KEY_DOWN(c) ==
    IF c.current < c.len - c.max_display
    THEN [c EXCEPT !.current = c.current + 1]
    ELSE c

entry_KEY_PPAGE(c) ==
    IF c.current > 0
    THEN [c EXCEPT !.current = Max({0, c.current - c.max_display})]
    ELSE c

entry_KEY_NPAGE(c) ==
    IF c.current < c.len - c.max_display
    THEN [c EXCEPT !.current = Min(c.len - c.max_display, c.current + c.max_display)]
    ELSE c

entry_KEY_HOME(c) == [c EXCEPT !.current = 0]

entry_KEY_END(c) == [c EXCEPT !.current = c.len - c.max_display]

\* the lines the next pass of the loop draws:
\* range(current_line_index, min(current_line_index + page, num_lines))
DrawnLines(c) == c.current .. (Min(c.current + c.max_display, c.len) - 1)

\* wrapped_lines[i] raises IndexError for an index below -len
DrawRaises(c) == \E i \in DrawnLines(c) : i < 0 - c.len

\* a scroll key of the Entry view and the drawing pass that follows it
Scrolled(key, c) ==
    /\ cursor' = c
    /\ last' = Op(key, 0, DrawRaises(c))
    /\ IF DrawRaises(c)
       THEN Crash("IndexError")
       ELSE UNCHANGED <<pc, error, exitcode, view>>
    /\ UNCHANGED <<tables, feed_items, batch, results, items0, idx, summary,
                   arrived, feedfile, typed, listing, body, llm_config, sort>>

ScrollUp ==
    /\ pc = "idle"
    /\ Top.name = "entry"
    /\ Scrolled("KEY_UP", entry_KEY_UP(cursor))

ScrollDown ==
    /\ pc = "idle"
    /\ Top.name = "entry"
    /\ Scrolled("KEY_DOWN", entry_KEY_DOWN(cursor))

ScrollPageUp ==
    /\ pc = "idle"
    /\ Top.name = "entry"
    /\ Scrolled("KEY_PPAGE", entry_KEY_PPAGE(cursor))

ScrollPageDown ==
    /\ pc = "idle"
    /\ Top.name = "entry"
    /\ Scrolled("KEY_NPAGE", entry_KEY_NPAGE(cursor))

ScrollHome ==
    /\ pc = "idle"
    /\ Top.name = "entry"
    /\ Scrolled("KEY_HOME", entry_KEY_HOME(cursor))

ScrollEnd ==
    /\ pc = "idle"
    /\ Top.name = "entry"
    /\ Scrolled("KEY_END", entry_KEY_END(cursor))

\* the Entry view just opened on a body of n wrapped lines in a terminal
\* that shows pg of them
InitScroll ==
    \E n \in 0..MaxLines, pg \in 1..MaxPage :
        Start(<<RowAB>>, None, NewCursor("entry", n, pg),
              CategoriesView \o <<View("feeds", <<"A">>), View("items_feed", 1),
                                  View("entry", 1)>>)

NextScroll ==
    ScrollUp \/ ScrollDown \/ ScrollPageUp \/ ScrollPageDown \/ ScrollHome \/ ScrollEnd

SpecScroll == InitScroll /\ [][NextScroll]_vars

\* ------------------------------------------------------------ properties
OkOutcome(d) == [kind |-> "ok", doc |-> d]

ItemsOfFeed(items, feed_id) == {i \in items : i.feed_id = feed_id}

\* the (total, unread) a view shows for a feed, None read as 0
countItemsOfFeed(items, feed_id) ==
    LET c == get_feed_item_counts_by_feed(feeds, items, feed_id)
    IN <<Coalesce(c[1]), Coalesce(c[2])>>

\* C1: merge idempotence.  In every reachable store state, for every feed F
\* and every parsed document E, merging E into F and then merging E into F
\* again leaves the rows of F, and F's (total, unread), as they were after
\* the first merge; on the single-feed path and on the bulk path.
C1_MergeIdempotent ==
    \A f \in feeds, d \in Docs :
        LET once == update_feed_items(feed_items, f.id, OkOutcome(d))
            twice == update_feed_items(once, f.id, OkOutcome(d))
            bulk1 == update_feed_items_according_to_content(feed_items, f.id, Some(d)).items
            bulk2 == update_feed_items_according_to_content(bulk1, f.id, Some(d)).items
        IN /\ ItemsOfFeed(twice, f.id) = ItemsOfFeed(once, f.id)
           /\ countItemsOfFeed(twice, f.id) = countItemsOfFeed(once, f.id)
           /\ ItemsOfFeed(bulk2, f.id) = ItemsOfFeed(bulk1, f.id)
           /\ countItemsOfFeed(bulk2, f.id) = countItemsOfFeed(bulk1, f.id)

\* C1 witness: a merge has just run and left a feed with two rows
C1_Witness ==
    /\ last.op = "update_feed_items"
    /\ \E f \in feeds : Cardinality(ItemsOfFeed(feed_items, f.id)) = 2
\* entries that have the fields every parsed entry has (title, summary, link)
WellFormed(d) == \A k \in 1..Len(d) : ~EntryRaises(d[k])

\* C2: dedup key.  No two stored rows share (feed_id, title); and in every
\* reachable store state, for a feed without a row of that title, merging
\* two entries of the same title and different content, in one merge or in
\* two successive merges, leaves exactly one row of that (feed_id, title),
\* holding the content of the entry processed first.
C2_DedupFirstSeen ==
    /\ \A i, j \in feed_items :
          (i.feed_id = j.feed_id /\ i.title = j.title) => i = j
    /\ \A f \in feeds, e1, e2 \in Entries :
          ( /\ ~EntryRaises(e1) /\ ~EntryRaises(e2)
            /\ e1.title = e2.title
            /\ ItemValues(e1).content # ItemValues(e2).content
            /\ ~\E i \in feed_items : i.feed_id = f.id /\ i.title = e1.title )
          => LET same == update_feed_items(feed_items, f.id, OkOutcome(<<e1, e2>>))
                 first == update_feed_items(feed_items, f.id, OkOutcome(<<e1>>))
                 succ == update_feed_items(first, f.id, OkOutcome(<<e2>>))
                 bulk1 == update_feed_items_according_to_content(
                              feed_items, f.id, Some(<<e1>>)).items
                 bulk2 == update_feed_items_according_to_content(
                              bulk1, f.id, Some(<<e2>>)).items
                 Kept(items) ==
                     LET rows == {i \in items : i.feed_id = f.id /\ i.title = e1.title}
                     IN /\ Cardinality(rows) = 1
                        /\ \A i \in rows : i.content = ItemValues(e1).content
             IN Kept(same) /\ Kept(succ) /\ Kept(bulk2)

\* C2 witness: after a merge, the title both entries carry is stored with
\* the one entry's content in a feed and with the other's in another feed:
\* each feed kept what it was given first
C2_Witness ==
    /\ last.op = "update_feed_items"
    /\ \E i \in feed_items : i.title = "t1" /\ i.content = "c2"
    /\ \E i \in feed_items : i.title = "t1" /\ i.content = "c1"

\* C3: a merge only adds rows, each with is_read = 0, and changes no field
\* of a stored row: in every reachable store state (rows marked read
\* included), for every feed and document, on both merge paths.
C3_MergeKeepsStoredRows ==
    \A f \in feeds, d \in Docs :
        LET after == update_feed_items(feed_items, f.id, OkOutcome(d))
            bulkr == update_feed_items_according_to_content(feed_items, f.id, Some(d)).items
        IN /\ feed_items \subseteq after
           /\ \A j \in after \ feed_items : j.is_read = 0 /\ j.feed_id = f.id
           /\ feed_items \subseteq bulkr
           /\ \A j \in bulkr \ feed_items : j.is_read = 0 /\ j.feed_id = f.id

\* C3 witness: a merge has just added a row to a feed that holds a read row
C3_Witness ==
    /\ last.op = "update_feed_items"
    /\ \E i, j \in feed_items :
          /\ i.feed_id = j.feed_id
          /\ i.is_read = 1
          /\ j.is_read = 0
          /\ j.id > i.id
          /\ \A k \in feed_items : k.id <= j.id

\* sum of the feeds' unread counts
RECURSIVE SumUnreadOfFeeds(_, _)
SumUnreadOfFeeds(fs, items) ==
    IF fs = {} THEN 0
    ELSE LET f == CHOOSE x \in fs : TRUE
         IN countItemsOfFeed(items, f.id)[2] + SumUnreadOfFeeds(fs \ {f}, items)

\* the feeds linked to a category
FeedsLinkedTo(c) ==
    {f \in feeds : \E l \in feed_categories :
        l.feed_id = f.id /\ l.category_id = c.id}

\* C4: unread accounting.  In every reachable store state and for every
\* category C, the unread count of C equals the sum of the unread counts of
\* the feeds linked to C, and equals the number of rows with is_read = 0
\* whose feed is linked to C.
C4_UnreadAccounting ==
    \A c \in categories :
        LET unread == Coalesce(get_feed_item_counts_by_category(
                                   feeds, feed_categories, feed_items, c.id)[2])
        IN /\ unread = SumUnreadOfFeeds(FeedsLinkedTo(c), feed_items)
           /\ unread = Cardinality({i \in feed_items :
                          i.is_read = 0 /\ \E f \in FeedsLinkedTo(c) : f.id = i.feed_id})

\* C4 witness: a category with two feeds, both with unread rows, one of
\* them with a read row too and linked to a second category
C4_Witness ==
    \E c, c2 \in categories, f, g \in feeds :
        /\ c # c2 /\ f # g
        /\ {f, g} \subseteq FeedsLinkedTo(c)
        /\ f \in FeedsLinkedTo(c2)
        /\ countItemsOfFeed(feed_items, f.id) = <<2, 1>>
        /\ countItemsOfFeed(feed_items, g.id)[2] >= 1

\* C5: read/unread round trip.  In every reachable store state, for every
\* stored row, marking it read and then unread leaves that row with
\* is_read = 0 and its other fields as they were, and every other row as
\* it was.
C5_ReadUnreadRoundTrip ==
    \A i \in feed_items :
        LET read == mark_item_as_read(feed_items, i.id, 1)
            back == mark_item_as_read(read, i.id, 0)
        IN /\ [i EXCEPT !.is_read = 1] \in read
           /\ back = (feed_items \ {i}) \cup {[i EXCEPT !.is_read = 0]}

\* C5 witness: a row has just been marked read, beside a row that is not
C5_Witness ==
    /\ last.op = "mark_item_as_read"
    /\ last.mark = 1
    /\ \E i, j \in feed_items :
          i.feed_id = j.feed_id /\ i.is_read = 1 /\ j.is_read = 0

\* the titles of a document are pairwise distinct
DistinctTitles(d) == \A a, b \in 1..Len(d) : d[a].title = d[b].title => a = b

\* C6: after merging n well-formed entries of pairwise distinct titles into
\* a feed without rows, the feed's (total, unread) is (n, n); marking the
\* feed read then gives (n, 0).
C6_CountsAfterMergeAndMark ==
    \A f \in feeds, d \in Docs :
        (WellFormed(d) /\ DistinctTitles(d) /\ ItemsOfFeed(feed_items, f.id) = {})
        => LET merged == update_feed_items(feed_items, f.id, OkOutcome(d))
               bulkm == update_feed_items_according_to_content(
                            feed_items, f.id, Some(d)).items
           IN /\ countItemsOfFeed(merged, f.id) = <<Len(d), Len(d)>>
              /\ countItemsOfFeed(mark_all_items_as(merged, f.id, 1), f.id) = <<Len(d), 0>>
              /\ countItemsOfFeed(bulkm, f.id) = <<Len(d), Len(d)>>

\* C6 witness: a feed has just been marked read and shows (2, 0)
C6_Witness ==
    /\ last.op = "mark_all_items_as"
    /\ last.mark = 1
    /\ \E f \in feeds : countItemsOfFeed(feed_items, f.id) = <<2, 0>>
\* the bulk fetch has run to its end: every result was handed to the merge,
\* or the program ended on an exception
BatchOver == (pc = "merging" /\ idx > Len(results)) \/ pc = "crashed"

\* C7: partial batch success.  When a bulk fetch in which requests timed
\* out or returned another status than 200 (none ended in a connection
\* failure) is over, the notice reports X of N with N the requests and X
\* those that succeeded, the entries of every feed whose request succeeded
\* are stored, and a feed all of whose requests failed has the rows it had.
C7_PartialBatchSuccess ==
    ( /\ BatchOver
      /\ error # "ClientConnectorError"
      /\ \E k \in 1..Len(results) : results[k] = Done(None) )
    => /\ summary = [shown |-> "fetch", x |-> Succeeded(results), n |-> Len(batch)]
       /\ \A k \in 1..Len(results) :
             results[k].content # None =>
                 \A n \in 1..Len(Get(results[k].content)) :
                     LET e == Get(results[k].content)[n]
                     IN ~EntryRaises(e) =>
                            \E i \in feed_items :
                                i.feed_id = batch[k].id /\ i.title = e.title
       /\ \A k \in 1..Len(results) :
             (\A j \in 1..Len(results) :
                  batch[j].id = batch[k].id => results[j].content = None)
             => ItemsOfFeed(feed_items, batch[k].id) = ItemsOfFeed(items0, batch[k].id)

\* C8: a connection failure on one feed of a bulk fetch is that feed's
\* failure only: the program never ends on it.
C8_ConnectionFailureIsPerFeed ==
    ~(pc = "crashed" /\ error = "ClientConnectorError")

\* C9: in a running bulk fetch every feed of the listings is requested
\* exactly once, also a feed linked to more than one category.
C9_EachFeedOnce ==
    pc \in {"fetching", "merging"}
    => /\ Len(results) = Len(batch)
       /\ \A f \in ListedFeeds :
             Cardinality({k \in 1..Len(batch) : batch[k].id = f.id}) = 1

\* C10: per-feed atomic merge.  A step whose entry loop raised part-way
\* commits none of that feed's entries: the stored rows are as before.
C10_AtomicMerge == [][last'.raised => feed_items' = feed_items]_vars

\* the entries of result k of the bulk fetch are stored for its feed
ResultStored(k) ==
    \A n \in 1..Len(Get(results[k].content)) :
        LET e == Get(results[k].content)[n]
        IN \E i \in feed_items : i.feed_id = batch[k].id /\ i.title = e.title

\* the merge of result k, run alone on the rows stored now, would not raise
ResultMerges(k) ==
    /\ results[k].content # None
    /\ ~update_feed_items_according_to_content(
            feed_items, batch[k].id, results[k].content).raised

\* C11: a merge failure on one feed of a bulk fetch is that feed's only.
\* When the merge of one result has raised, the merges committed for the
\* results before it are still stored, and the results after it, whose own
\* merge does not fail, are merged and stored too.
C11_MergeFailureIsPerFeed ==
    (BatchOver /\ error = "AttributeError")
    => /\ \A k \in 1..(idx - 1) :
             results[k].content # None => ResultStored(k)
       /\ \A k \in (idx + 1)..Len(results) :
             ResultMerges(k) => ResultStored(k)

\* the store as the connection of a new run sees it
Store == Opened(feeds, categories, feed_categories, feed_items)

\* no url and no category name is in two rows
UniqueRows(db) ==
    /\ \A f, g \in db.feeds : f.url = g.url => f = g
    /\ \A c, d \in db.categories : c.name = d.name => c = d

RowCategories(row) ==
    IF row.Category = <<>> THEN {}
    ELSE LET parts == SplitSemi(row.Category)
         IN {Strip(parts[k]) : k \in 1..Len(parts)}

\* C13: after the upsert of a feed-file row, whether its url was stored or
\* not, every category the row names exists and is linked to the feed row
\* that has the row's url, and no link was created for another feed.
C13_UpsertLinksTheUrlsFeed ==
    \A file \in FeedFiles :
        \A k \in 1..Len(file) :
            LET row == file[k]
                d == LoadCsvRow(Store, row)
            IN Head(row.Name) # "#"
               => /\ \A name \in RowCategories(row) :
                         \E c \in d.categories, f \in d.feeds :
                             /\ c.name = name
                             /\ f.url = row.URL
                             /\ \E l \in d.feed_categories :
                                    l.feed_id = f.id /\ l.category_id = c.id
                  /\ \A l \in d.feed_categories \ feed_categories :
                         \E f \in d.feeds : f.url = row.URL /\ f.id = l.feed_id

\* C14: every link row refers to a stored feed and a stored category.
C14_LinksReferToRows ==
    \A l \in feed_categories :
        /\ \E f \in feeds : f.id = l.feed_id
        /\ \E c \in categories : c.id = l.category_id

\* C15: every item's feed_id is the id of a stored feed.
C15_ItemsReferToFeeds ==
    \A i \in feed_items : \E f \in feeds : f.id = i.feed_id

\* the typed text is 'yes' in some mix of cases
IsYes(t) ==
    /\ Len(t) = 3
    /\ t[1] \in {"y", "Y"} /\ t[2] \in {"e", "E"} /\ t[3] \in {"s", "S"}

\* C16: a confirmed orphan prune deletes exactly the feeds whose url is not
\* in the feed file: afterwards the stored feeds are those stored before
\* whose url is the URL of a row of the file.
C16_PruneOrphansExactly ==
    [][(last'.op = "clear_feeds_not_in_csv" /\ IsYes(typed'))
       => feeds' = {f \in feeds : f.url \in load_feed_urls(feedfile)}]_vars

\* C17: a confirmed prune of old items leaves every feed its 10 most
\* recently updated rows: a feed with at most 10 rows keeps them all, a feed
\* with more keeps 10 of them, none older than a row it lost.
C17_PruneKeepsNewest ==
    [][(last'.op = "clean_database" /\ IsYes(typed'))
       => \A f \in feeds :
              LET before == {i \in feed_items : i.feed_id = f.id}
                  after == {i \in feed_items' : i.feed_id = f.id}
              IN IF Cardinality(before) <= DeleteLimit
                 THEN after = before
                 ELSE /\ after \subseteq before
                      /\ Cardinality(after) = DeleteLimit
                      /\ \A a \in after, b \in before \ after :
                             a.last_updated >= b.last_updated]_vars

MaintenanceOps == {"delete_database_file", "clean_database", "clear_feeds_not_in_csv"}

\* C18: a maintenance operation whose prompt was answered with another text
\* than 'yes' (in any case) leaves feeds, categories, links and items as
\* they were.
C18_NoConfirmNoChange ==
    [][(last'.op \in MaintenanceOps /\ ~IsYes(typed'))
       => UNCHANGED <<feeds, categories, feed_categories, feed_items>>]_vars

\* C18 witness: a maintenance prompt was answered 'y' with feeds, links and
\* items in the store
C18_Witness ==
    /\ last.op \in MaintenanceOps
    /\ typed = <<"y">>
    /\ feeds # {} /\ feed_categories # {} /\ feed_items # {}

\* the views from which a view may be opened
OpenedFrom(name) ==
    CASE name = "feeds" -> {"categories"}
      [] name = "items_category" -> {"categories"}
      [] name = "items_feed" -> {"feeds"}
      [] name = "entry" -> {"items_feed", "items_category"}
      [] name = "links" -> {"entry"}
      [] OTHER -> {}

\* C19: navigation follows the view hierarchy.  A step that changes the
\* open views either opens one view on top of the view that read the key,
\* the Entry view only from an Items view, the Links view only from the
\* Entry view, the Feeds view only from the Categories view, or is a Back
\* that closes the top view alone and returns to the view it was opened
\* from.
C19_NavigationHierarchy ==
    [][view' # view
       => \/ /\ Len(view') = Len(view) + 1
             /\ SubSeq(view', 1, Len(view)) = view
             /\ Top.name \in OpenedFrom(view'[Len(view')].name)
          \/ /\ last'.op = "back"
             /\ Len(view) > 1
             /\ view' = SubSeq(view, 1, Len(view) - 1)
             /\ view'[Len(view')].name \in OpenedFrom(Top.name)]_vars

\* C19 witness: a Back in the Links view has returned to the Entry view,
\* itself opened from an Items-in-Feed view
C19_Witness ==
    /\ last.op = "back"
    /\ Len(view) = 4
    /\ Top.name = "entry"
    /\ view[3].name = "items_feed"

\* C20: quit is at hand in every view.  Whenever a view waits for a key,
\* the quit key can be taken, and the step that ends the program ends it
\* with exit code 0 from the very view that was open.
C20_QuitFromEveryView ==
    /\ []((pc = "idle" /\ exitcode = None) => ENABLED Quit)
    /\ [][(last'.op = "quit" /\ last.op # "quit")
          => (exitcode' = Some(0) /\ pc' = "exited" /\ view' = view)]_vars

\* C20 witness: the program was quit with exit code 0 in the Links view
C20_Witness ==
    /\ last.op = "quit"
    /\ exitcode = Some(0)
    /\ Top.name = "links"

\* C21: no key press in a navigation view is fatal.  Whatever the store
\* holds, and in particular when the list a view shows is empty, the enter,
\* fetch, mark-read and mark-unread keys raise no error: the program never
\* ends on an IndexError raised by indexing the displayed list.
C21_NoFatalKey == ~(pc = "crashed" /\ error = "IndexError")

\* the rows of a listing
RowSet(rows) == {rows[j] : j \in 1..Len(rows)}

\* C23: entering the Entry view of an item sets its is_read to 1 in the
\* store before the entry is displayed, and on return to the Items view the
\* listing is read again from the store: it holds exactly the stored rows of
\* the view, shows the item as read, and its unread count is the count the
\* view showed before, less one when the item was unread.
C23_EnterMarksReadAndRefreshes ==
    [][/\ (Len(view') = Len(view) + 1 /\ view'[Len(view')].name = "entry")
          => /\ \E i \in feed_items' :
                   i.id = view'[Len(view')].of /\ i.is_read = 1
             /\ body' # None
             /\ Get(body').item = view'[Len(view')].of
       /\ (Top.name = "entry" /\ Len(view') = Len(view) - 1)
          => /\ RowSet(listing') = RowsOf(view'[Len(view')], feed_items')
             /\ Len(listing') = Cardinality(RowSet(listing'))
             /\ \A r \in RowSet(listing') : r.id = Top.of => r.is_read = 1
             /\ unread_count(listing') =
                   unread_count(listing)
                   - Cardinality({r \in RowSet(listing) :
                                     r.id = Top.of /\ r.is_read = 0})]_vars

\* C23 witness: back in an Items view from the entry of an item that was
\* unread when the view was opened; the listing shows it read next to a row
\* still unread
C23_Witness ==
    /\ last.op = "back"
    /\ Top.name \in {"items_feed", "items_category"}
    /\ \E r \in RowSet(listing) : r.is_read = 1
    /\ \E r \in RowSet(listing) : r.is_read = 0
    /\ unread_count(listing) = Cardinality({i \in ListedItems : i.is_read = 0})

\* C28: a failure of the storage engine during a store operation invoked
\* from navigation does not end the program: the operation is abandoned
\* with a message and the view stays usable, so the program never ends on
\* the engine's error.
C28_StorageFailureNotFatal == ~(pc = "crashed" /\ error = "OperationalError")

\* the texts an entry can show
Texts == {"c1", "c2", "s1", "s2"}

\* C29: translation and summarization fall back to the original text.
\* Whenever the service call raises, englishTranslate and englishSummarize
\* return their input text unchanged and raise nothing, and the Entry view
\* that asked for the summary opens with the original text in its place.
C29_TranslationFallback ==
    /\ \A text \in Texts : \A service \in ServiceOutcomes :
          service.kind = "raises"
          => /\ englishSummarize(text, service) = [raised |-> FALSE, value |-> text]
             /\ englishTranslate(text, service) = [raised |-> FALSE, value |-> text]
    /\ ~(pc = "crashed" /\ error = "ServiceError")
    /\ (body # None /\ Get(body).service = "raises")
          => /\ Top.name \in {"entry", "links"}
             /\ Get(body).plain_text[1] = Get(body).plain_text[3]
             /\ \E i \in feed_items :
                   /\ i.id = Get(body).item
                   /\ Get(body).plain_text[3] = origin_plain_text(i)

\* C29 witness: the Entry view of an English text is open although the
\* summary request raised
C29_Witness ==
    /\ Top.name = "entry"
    /\ body # None
    /\ Get(body).service = "raises"
    /\ Len(Get(body).plain_text) = 3

\* C22: cursor movement is clamped.  In every list view, after any sequence
\* of up, down, page-up, page-down, home and end keys the cursor index is
\* never negative, and stays within 0..len-1 when the list has rows; and a
\* page-down on the last page leaves the cursor on the last row.
C22_CursorClamped ==
    /\ cursor.current >= 0
    /\ cursor.len > 0 => cursor.current <= cursor.len - 1
    /\ (cursor.len > 0 /\ cursor.start_index + cursor.max_display >= cursor.len)
          => KEY_NPAGE(cursor).current
                = IF cursor.list \in Paged THEN cursor.len - 1 ELSE cursor.current

\* the store after is_read is set to mark on the items of the feeds linked
\* to category c, and on no other item
MarkedExactly(c, mark) ==
    {IF \E f \in FeedsLinkedTo(c) : f.id = i.feed_id
     THEN [i EXCEPT !.is_read = mark] ELSE i : i \in feed_items}

\* the (total, unread) a view shows for a category, None read as 0
countItemsOfCategory(items, c) ==
    LET n == get_feed_item_counts_by_category(feeds, feed_categories, items, c.id)
    IN <<Coalesce(n[1]), Coalesce(n[2])>>

\* C24: marking a category read (or unread) sets is_read to 1 (or 0) on
\* exactly the items of the feeds linked to that category and on no other
\* item, and afterwards the category's unread count is 0 (or its total);
\* for every reachable store, category and mark, and in every step of the
\* mark-category key.
C24_MarkCategoryExact ==
    /\ [](\A c \in categories : \A mark \in {0, 1} :
            LET after == mark_category_as(feeds, categories, feed_categories,
                                          feed_items, c.name, mark)
            IN /\ after = MarkedExactly(c, mark)
               /\ countItemsOfCategory(after, c)[2] =
                     IF mark = 1 THEN 0 ELSE countItemsOfCategory(after, c)[1])
    /\ [][(last'.op = "mark_category_as" /\ pc' = "idle")
          => \E c \in categories :
                /\ feed_items' = MarkedExactly(c, last'.mark)
                /\ feeds' = feeds /\ feed_categories' = feed_categories]_vars

\* C24 witness: a category was marked read; its items are all read while
\* an item of a feed outside it is still unread
C24_Witness ==
    /\ last.op = "mark_category_as"
    /\ last.mark = 1
    /\ \E c \in categories :
          /\ countItemsOfCategory(feed_items, c)[1] > 0
          /\ countItemsOfCategory(feed_items, c)[2] = 0
          /\ \E i \in feed_items :
                /\ i.is_read = 0
                /\ ~ \E f \in FeedsLinkedTo(c) : f.id = i.feed_id

\* C25: the category list in unread-count order holds every category
\* exactly once, categories without feeds or items included with count 0,
\* in non-increasing order of the live unread count and, among equal
\* counts, in ascending name order; the count used for the order is the
\* unread count the views show for the category.
C25_CategoriesByUnread ==
    LET L == fetch_categories(feeds, categories, feed_categories, feed_items)
    IN /\ Len(L) = Cardinality(categories)
       /\ {L[k] : k \in 1..Len(L)} = categories
       /\ \A c \in categories :
             UnreadOfCategory(feeds, feed_categories, feed_items, c)
                = countItemsOfCategory(feed_items, c)[2]
       /\ \A j, k \in 1..Len(L) :
             j < k =>
                LET uj == countItemsOfCategory(feed_items, L[j])[2]
                    uk == countItemsOfCategory(feed_items, L[k])[2]
                IN uj > uk \/ (uj = uk /\ TextLess(L[j].name, L[k].name))

\* C25 witness: the category listed first has unread items and a name
\* after that of a category listed later, and a category has count 0
C25_Witness ==
    LET L == fetch_categories(feeds, categories, feed_categories, feed_items)
    IN /\ Len(L) >= 2
       /\ TextLess(L[2].name, L[1].name)
       /\ countItemsOfCategory(feed_items, L[1])[2] > countItemsOfCategory(feed_items, L[2])[2]
       /\ countItemsOfCategory(feed_items, L[2])[2] > 0

\* C25 second case: a category whose only link names no stored feed is
\* listed last with count 0, after a category of equal count and smaller
\* name
C25_WitnessEmpty ==
    LET L == fetch_categories(feeds, categories, feed_categories, feed_items)
    IN /\ Len(L) = 3
       /\ FeedsLinkedTo(L[3]) = {}
       /\ FeedsLinkedTo(L[2]) # {}
       /\ countItemsOfCategory(feed_items, L[2])[2] = 0
       /\ countItemsOfCategory(feed_items, L[2])[1] > 0

\* the feed nodes of an outline file in document order, each with its
\* ancestor nodes, outermost first
RECURSIVE FeedNodes(_, _)
RECURSIVE FeedNodesOfAll(_, _)
FeedNodes(node, ancestors) ==
    (IF node.xmlUrl # None THEN <<[node |-> node, ancestors |-> ancestors]>>
     ELSE <<>>)
    \o FeedNodesOfAll(node.kids, Append(ancestors, node))

FeedNodesOfAll(nodes, ancestors) ==
    IF nodes = <<>> THEN <<>>
    ELSE FeedNodes(Head(nodes), ancestors) \o FeedNodesOfAll(Tail(nodes), ancestors)

\* the labels of the nodes that carry one, in order
RECURSIVE LabelsOf(_)
LabelsOf(nodes) ==
    IF nodes = <<>> THEN <<>>
    ELSE (IF Head(nodes).text # None THEN <<Get(Head(nodes).text)>> ELSE <<>>)
         \o LabelsOf(Tail(nodes))

\* the stored feed of url u is linked to the category of that name
LinkedByName(u, name) ==
    \E f \in feeds, c \in categories, l \in feed_categories :
        f.url = u /\ c.name = name /\ l.feed_id = f.id /\ l.category_id = c.id

\* C26: first-label rule of the outline loader.  For every outline file, a
\* feed node under at least one ancestor gets as its category the label of
\* its outermost ancestor: its descriptor carries the node's url and that
\* label as category, and the feed stored for a url the file names once has
\* that label as tags and is linked to the category of that name alone.
C26_FirstLabelRule ==
    LET nodes == FeedNodesOfAll(feedfile, <<>>)
        fds == extract_feeds_from_opml_file(feedfile)
    IN /\ Len(fds) = Len(nodes)
       /\ \A k \in 1..Len(nodes) :
             (nodes[k].ancestors # <<>> /\ nodes[k].ancestors[1].text # None)
             => LET label == Get(nodes[k].ancestors[1].text)
                IN /\ fds[k].url = Get(nodes[k].node.xmlUrl)
                   /\ category_field(fds[k]) = label
                   /\ (\A j \in 1..Len(fds) : j # k => fds[j].url # fds[k].url)
                      => /\ LinkedByName(fds[k].url, label)
                         /\ \A f \in feeds : f.url = fds[k].url => f.tags = label
                         /\ \A c \in categories :
                               LinkedByName(fds[k].url, c.name) => c.name = label

\* C26 witness: the file A > B > feed(url u1) is loaded; the feed of u1 is
\* linked to category A and there is no category B
C26_Witness ==
    /\ feedfile = << Folder(Some(<<"A">>), << Folder(Some(<<"B">>), <<FeedN1>>) >>) >>
    /\ LinkedByName("u1", <<"A">>)
    /\ \A c \in categories : c.name = <<"A">>
    /\ Top.name = "feeds"

\* C27: the category path of a feed is the chain of its ancestors' labels
\* only, outermost first: the feed node's own label is not part of it, and
\* a feed node at the top level has an empty path and is linked to no
\* category.
C27_PathIsAncestorsOnly ==
    LET nodes == FeedNodesOfAll(feedfile, <<>>)
        fds == extract_feeds_from_opml_file(feedfile)
    IN \A k \in 1..Len(nodes) :
          /\ fds[k].category = LabelsOf(nodes[k].ancestors)
          /\ nodes[k].ancestors = <<>>
             => /\ fds[k].category = <<>>
                /\ \A c \in categories : ~LinkedByName(fds[k].url, c.name)

\* C30: a bulk fetch always settles.  When every request eventually
\* responds or times out, a batch in flight is eventually followed by the
\* state in which one result per requested feed was collected and merged,
\* the summary notice is shown and the Categories view reads keys again.
C30_BulkFetchSettles ==
    (pc = "fetching") ~> (pc = "idle" /\ summary.shown = "update")

\* C31: in a bulk fetch no item is written while a request is in flight.
\* No step taken while requests are awaited changes the item rows; the
\* first write happens only when every request has completed, failed or
\* timed out, and each merge step writes rows of one feed only, the feed of
\* the result whose turn it is.
C31_MergeAfterAllFetched ==
    [][/\ pc = "fetching" => feed_items' = feed_items
       /\ (pc \in {"fetching", "merging"} /\ feed_items' # feed_items)
          => /\ \A k \in 1..Len(results) : results[k] # Pending
             /\ idx' = idx + 1
             /\ \A i \in (feed_items' \ feed_items) \cup (feed_items \ feed_items') :
                   i.feed_id = batch[idx].id]_vars

\* C31 witness: the first result of a batch of several has been merged and
\* rows were written, every request having returned
C31_Witness ==
    /\ pc = "merging"
    /\ idx = 2
    /\ Len(results) >= 2
    /\ feed_items # items0
    /\ Len(arrived) = Len(results)

\* C32: within a bulk fetch the feeds are merged in the order of the
\* listing that formed the batch, whatever the order in which the responses
\* arrive: one result is collected per feed of the listing, and the i-th
\* merge step merges the i-th result into the i-th feed of the listing.
C32_MergeInListingOrder ==
    /\ [](pc \in {"fetching", "merging"} => Len(results) = Len(batch))
    /\ [][(pc = "merging" /\ idx' = idx + 1)
          => feed_items' = update_feed_items_according_to_content(
                               feed_items, batch[idx].id, results[idx].content).items]_vars

\* C32 witness: the response of the first feed of the listing arrived last,
\* and its result was merged first
C32_Witness ==
    /\ pc = "merging"
    /\ idx = 2
    /\ Len(arrived) >= 2
    /\ arrived[Len(arrived)] = 1
    /\ results[1].content # None
    /\ \E i \in feed_items \ items0 : i.feed_id = batch[1].id

\* the rows stored when the first n results were merged in listing order
RECURSIVE MergedPrefix(_, _, _, _)
MergedPrefix(items, fds, rs, n) ==
    IF n = 0 THEN items
    ELSE update_feed_items_according_to_content(
             MergedPrefix(items, fds, rs, n - 1), fds[n].id, rs[n].content).items

\* C33: the store at the end of a bulk fetch does not depend on the
\* interleaving of the responses.  For the outcomes collected, whatever the
\* order in which they arrived, the rows stored during and after the merge
\* are those of merging the results in listing order into the rows the
\* store held when the fetch started, ids and field values included.
C33_StoreIndependentOfArrival ==
    /\ pc = "fetching" => feed_items = items0
    /\ pc = "merging" => feed_items = MergedPrefix(items0, batch, results, idx - 1)
    /\ (pc = "crashed" /\ error = "AttributeError" /\ results # <<>>)
          => feed_items = MergedPrefix(items0, batch, results, idx - 1)

\* C33 witness: a bulk fetch is over whose responses arrived in another
\* order than the listing, two of them with entries that were stored
C33_Witness ==
    /\ pc = "merging"
    /\ idx > Len(results)
    /\ Len(results) >= 2
    /\ arrived[1] # 1
    /\ \E j, k \in 1..Len(results) :
          /\ j # k
          /\ batch[j].id # batch[k].id
          /\ \E i \in feed_items \ items0 : i.feed_id = batch[j].id
          /\ \E i \in feed_items \ items0 : i.feed_id = batch[k].id

\* C34: fetch-all covers the whole store.  The batch it builds holds every
\* feed row of the store, a feed linked to no category included.
C34_FetchAllCoversStore ==
    pc = "fetching" => \A f \in feeds : \E k \in 1..Len(batch) : batch[k].id = f.id

\* C35: visible-window invariant.  In every list view with a non-empty
\* list, after any key the cursor lies inside the visible window:
\* start_index <= cursor < start_index + page size.
C35_CursorInWindow ==
    cursor.len > 0
    => /\ cursor.start_index <= cursor.current
       /\ cursor.current < cursor.start_index + cursor.max_display

\* C36: in the Entry view the scroll offset always stays within
\* 0..max(0, num_lines - page): after any sequence of up, down, page-up,
\* page-down, home and end keys it is never negative, also when the body
\* has fewer lines than one page.
C36_ScrollOffsetInRange ==
    (pc = "idle" /\ Top.name = "entry")
    => /\ 0 <= cursor.current
       /\ cursor.current <= Max({0, cursor.len - cursor.max_display})

\* C37: in the Items-in-Feed view the sort order the user chose (by date or
\* by title) is kept across listing refreshes: after marking an item read or
\* unread, and after returning from the Entry view, the refreshed listing is
\* in the order of the last 'd' / 't' key.
C37_SortOrderKept ==
    [][(/\ pc = "idle" /\ pc' = "idle"
        /\ Top'.name = "items_feed"
        /\ \/ Top.name = "items_feed" /\ last'.op = "mark_item_as_read"
           \/ Top.name = "entry" /\ last'.op = "back")
       => /\ sort' = sort
          /\ listing' \in FetchSorted(feed_items', Top'.of, sort)]_vars

\* the rows of the feeds other than feed_id
ItemsOfOtherFeeds(items, feed_id) == {i \in items : i.feed_id # feed_id}

\* C38: the dedup key is scoped per feed and a merge touches only its own
\* feed.  In every reachable store state, for every feed F and every parsed
\* document, on the single-feed path and on the bulk path, the merge into F
\* leaves the rows of every other feed as they were, and an entry the loop
\* reaches whose title is stored for another feed and not for F becomes a
\* new row of F; and every fetch step of the program changes the rows of one
\* feed only.
C38_MergeScopedToFeed ==
    /\ [](\A f \in feeds, d \in Docs :
            LET single == update_feed_items(feed_items, f.id, OkOutcome(d))
                bulkr == update_feed_items_according_to_content(
                             feed_items, f.id, Some(d)).items
                Frame(items) ==
                    ItemsOfOtherFeeds(items, f.id) = ItemsOfOtherFeeds(feed_items, f.id)
                Inserted(items, k) ==
                    ( /\ \E g \in feed_items : g.feed_id # f.id /\ g.title = d[k].title
                      /\ ~\E i \in feed_items : i.feed_id = f.id /\ i.title = d[k].title )
                    => \E i \in items \ feed_items :
                          i.feed_id = f.id /\ i.title = d[k].title
            IN /\ Frame(single)
               /\ Frame(bulkr)
               /\ \A k \in 1..Len(d) :
                     /\ WellFormed(SubSeq(d, 1, k)) => Inserted(single, k)
                     /\ WellFormed(d) => Inserted(bulkr, k))
    /\ [][last'.op = "update_feed_items"
          => \E f \in feeds :
                ItemsOfOtherFeeds(feed_items', f.id) = ItemsOfOtherFeeds(feed_items, f.id)]_vars

\* C38 witness: a merge has just run and a title is stored for two feeds
C38_Witness ==
    /\ last.op = "update_feed_items"
    /\ \E i, j \in feed_items : i.feed_id # j.feed_id /\ i.title = j.title
====
